---- MODULE Spec2Model ----
(***************************************************************************)
(* GoldMetrics backend: the idempotent event-bus consumer                  *)
(* (infrastructure/adapters/event_bus.py), the token-bucket RateLimiter    *)
(* and the retrying HTTP client (infrastructure/adapters/api.py).          *)
(*                                                                         *)
(* Three specifications share the variables; each leaves the other         *)
(* components at rest:                                                     *)
(*   Spec        the broker queue and the on_message callbacks             *)
(*   SpecLimiter one RateLimiter, its refill task and its acquirers        *)
(*   SpecRetry   one call of AIOHTTPAPIClientAdapter.request               *)
(***************************************************************************)
EXTENDS Integers, Sequences, FiniteSets, TLC

VARIABLES
    \* ---- event bus ----
    msgBody,      \* message -> body published, or NoBody
    msgState,     \* message -> "unpublished" | "ready" | "unacked" | "acked" | "dropped"
    pc,           \* message -> position of its running on_message callback
    trace,        \* message -> steps the current (latest) delivery has taken
    disp,         \* message -> dispositions the current delivery sent to the broker
    attempts,     \* message -> ack()/reject() calls the current delivery made
    raised,       \* message -> exception that escaped the current callback
    dupAtStart,   \* message -> event_id already in the store when delivery began
    deliveries,   \* message -> number of deliveries so far
    redis,        \* the idempotency store: keys that exist
    invoked,      \* event_id -> handler invocations
    completed,    \* event_id -> handler invocations that returned successfully
    \* ---- rate limiter ----
    rate_limit,   \* RateLimiter.rate_limit (queue maxsize)
    queue,        \* RateLimiter.queue.qsize()
    getters,      \* asyncio.Queue._getters: callers suspended in get(), FIFO
    active,       \* RateLimiter._active
    task,         \* RateLimiter._task: "none" | "running" | "cancelled" | "finished"
    stopped,      \* what each stop() call so far gave its caller
    now,          \* elapsed time in units of RateLimiter.delay
    apc,          \* caller -> "idle" | "waiting" | "woken"
    acquiredAt,   \* time -> acquire() calls completed during that delay period
    \* ---- retrying client ----
    max_retries,  \* AIOHTTPAPIClientAdapter.max_retries
    backoff_start, \* AIOHTTPAPIClientAdapter.backoff_start, in seconds
    waits,        \* the backoff sleeps of the request, in seconds, in order
    script,       \* what the i-th HTTP call will do (the fake session of the tests)
    rpc,          \* "idle" | "attempt" | "acquire" | "call" | "decide" | "sleep" |
                  \* "returned" | "raised"
    acquired,     \* tokens the request has acquired from the rate limiter
    attempt_number, \* tenacity retry_state.attempt_number
    calls,        \* HTTP calls issued (session.request invocations)
    outcome,      \* the outcome of the last attempt
    result,       \* what request() gave its caller
    \* ---- client scope (async with client) ----
    session,      \* AIOHTTPAPIClientAdapter.session: "none" | "open" | "closed"
    spc,          \* "outside" | "inside" | "exiting" | "exited"
    bodyExc,      \* the exception the body of the scope ended with, or None
    propagated,   \* what each finished scope gave its caller
    \* ---- idempotency store adapter ----
    self_redis,   \* RedisEventStoreAdapter.redis: "none" | "connection"
    factoryCalls, \* what each Redis.from_url call so far did
    storeCalls,   \* the calls made on the adapter: operation, backend, result
    storeNow,     \* the backing store's clock, in seconds
    elapses,      \* times the clock has been advanced
    expireAt,     \* event_id -> time at which its key expires (0: no key set)
    \* ---- broker side of the event bus adapter ----
    connection,   \* RabbitMQEventBusAdapter.connection: "none" | "open" | "closed"
    channel,      \* RabbitMQEventBusAdapter.channel: "none" | "open" | "closed"
    exchange,     \* RabbitMQEventBusAdapter.exchange: 0 (None), or the number of
                  \* the channel it was declared on
    connectsMade, \* connections created by connect_robust
    channelsOpened, \* channels opened
    closeCalls,   \* close() calls made on the channel and on the connection
    bpc,          \* task -> where it is in the bus operation it runs
    bop,          \* task -> the bus operation it runs and its event type
    busOps,       \* bus operations begun
    bindings,     \* queue bindings declared by subscribe
    received,     \* queue name -> messages routed to it
    sent,         \* messages the exchange accepted
    publishCalls, \* exchange.publish invocations
    busLog,       \* what each finished bus operation gave its caller
    \* ---- unit of work ----
    db,           \* rows committed to the database
    pending,      \* rows added to the open session and not committed
    upc,          \* "outside" | "inside" a unit of work
    dbAtEnter,    \* the database as it was when the latest unit was entered
    commits,      \* commit() calls that succeeded in the latest unit
    units,        \* units of work entered
    lastExit,     \* the exception the latest unit was left with, or None
    discarded,    \* the rows the latest exit threw away
    \* ---- EODHDService.update_financial_instruments ----
    upd,          \* "idle" | "tickers" | "eod" | "publish" | "done" | "raised"
    started,      \* the kinds of scan whose coroutines gather has started
    scanpc,       \* scan task -> where it is
    requests,     \* the API requests made: task, inside its scope or not, and
                  \* the state of the client's session at that moment
    notified,     \* Notification events published
    \* ---- JobSchedulingService ----
    firings,      \* times the scheduler has run the job publish_update
    coroutines,   \* the coroutine objects the job's runs created, and how
                  \* far each has run: "created" | "running" | "done"
    \* ---- EODHDAPIClient construction ----
    api_key,      \* the api_key the constructor was called with
    client        \* "none" | "constructed" | "ValueError": what the call gave

busVars == <<msgBody, msgState, pc, trace, disp, attempts, raised, dupAtStart,
             deliveries, redis, invoked, completed>>
limVars == <<rate_limit, queue, getters, active, task, stopped, now, apc, acquiredAt>>
reqVars == <<max_retries, backoff_start, waits, script, rpc, acquired, attempt_number, calls,
            outcome, result>>
scopeVars == <<session, spc, bodyExc, propagated>>
storeVars == <<self_redis, factoryCalls, storeCalls, storeNow, elapses, expireAt>>
brokerVars == <<connection, channel, exchange, connectsMade, channelsOpened,
                closeCalls, bpc, bop, busOps, bindings, received, sent,
                publishCalls, busLog>>
uowVars == <<db, pending, upc, dbAtEnter, commits, units, lastExit, discarded>>
updVars == <<upd, started, scanpc, requests, notified>>
schedVars == <<firings, coroutines>>
ctorVars == <<api_key, client>>
appVars == <<brokerVars, uowVars, updVars, schedVars, ctorVars>>
vars == <<busVars, limVars, reqVars, scopeVars, storeVars, appVars>>

(***************************************************************************)
(* Bounds                                                                  *)
(***************************************************************************)
MaxMessages == 2      \* messages the publishers send
MaxDeliveries == 2    \* deliveries of one message (first delivery + redeliveries)
MaxRateLimit == 2     \* largest rate_limit tried
MaxTime == 4          \* delay periods observed
MaxCallers == 2       \* tasks calling acquire()
MaxStops == 2         \* stop() calls on one limiter
MaxScopes == 2        \* times the client is used as a scope
MaxStoreCalls == 3    \* calls made on one idempotency store
MaxElapses == 2       \* times the backing store's clock is advanced
MaxBusTasks == 2      \* tasks that use one event bus at the same time
MaxBusOps == 3        \* operations begun on one event bus
MaxUnits == 2         \* units of work entered one after another
MaxCommits == 2       \* commit() calls in one unit of work
MaxExchanges == 2     \* exchange codes one update scans
MaxRetriesBound == 3  \* largest max_retries tried
MaxBackoffStart == 3  \* largest backoff_start tried
MaxFirings == 2       \* firings of the scheduled job

Messages == 1..MaxMessages
EventIds == {"e1", "e2"}
None == "None"
NoBody == [utf8 |-> FALSE, json |-> "unpublished", event_id |-> None]

(***************************************************************************)
(* Message bodies.  A body is bytes; what matters to on_message is whether *)
(* it decodes as UTF-8, whether the text is JSON, whether the JSON value   *)
(* is an object, and the value under "event_id".                           *)
(***************************************************************************)
Bodies ==
    {[utf8 |-> FALSE, json |-> "invalid", event_id |-> None],
     [utf8 |-> TRUE, json |-> "invalid", event_id |-> None],
     [utf8 |-> TRUE, json |-> "array", event_id |-> None]}
    \cup {[utf8 |-> TRUE, json |-> "object", event_id |-> e] :
            e \in EventIds \cup {None, ""}}

\* json.loads(message.body.decode()); data.get("event_id")
\* bytes.decode raises UnicodeDecodeError, json.loads raises JSONDecodeError,
\* a JSON value that is no object has no .get (AttributeError).
ParseBody(body) ==
    IF ~body.utf8 THEN [exc |-> "UnicodeDecodeError", event_id |-> None]
    ELSE IF body.json = "invalid" THEN [exc |-> "JSONDecodeError", event_id |-> None]
    ELSE IF body.json # "object" THEN [exc |-> "AttributeError", event_id |-> None]
    ELSE [exc |-> "none", event_id |-> body.event_id]

\* `if not event_id`: None and the empty string are falsy
MissingEventId(event_id) == event_id \in {None, ""}

\* Mutant of is_processed: the existence check always answers "not seen".
is_processed_never(store, event_id) == FALSE

\* RedisEventStoreAdapter.is_processed: exists == 1
is_processed(store, event_id) == event_id \in store

\* RedisEventStoreAdapter.mark_as_processed: set(event_id, "processed", ex=2592000)
mark_as_processed(store, event_id) == store \cup {event_id}

\* The except clauses of on_message: JSONDecodeError is rejected without
\* requeue and re-raised, every other Exception is rejected with requeue and
\* swallowed.
ExceptClause(exc) ==
    IF exc = "JSONDecodeError"
    THEN [requeue |-> FALSE, reraise |-> TRUE]
    ELSE [requeue |-> TRUE, reraise |-> FALSE]

\* What the handler can do: return, raise some Exception, or raise
\* json.JSONDecodeError (a handler that itself decodes JSON, e.g. the body of
\* an API response).
HandlerOutcomes == {"ok", "Exception", "JSONDecodeError"}

\* What a call to the idempotency store can do.
StoreOutcomes == {"ok", "RedisError"}

\* The broker's view of a message after a disposition.
BrokerState(d) ==
    CASE d = "ack" -> "acked"
      [] d = "reject" -> "dropped"
      [] d = "reject_requeue" -> "ready"

\* IncomingMessage.ack / IncomingMessage.reject: a message that was already
\* acked or rejected raises MessageProcessError and sends nothing.
Send(m, d) ==
    IF disp[m] # <<>>
    THEN [disp |-> disp[m], state |-> msgState[m], err |-> TRUE]
    ELSE [disp |-> <<d>>, state |-> BrokerState(d), err |-> FALSE]

\* One ack()/reject() call by the callback of message m.  tr is the trace up
\* to the call, nextpc where the callback continues when the call returns,
\* exc the exception (or "none") that is propagating while it is made.
Dispose(m, d, tr, nextpc, exc) ==
    LET s == Send(m, d) IN
    /\ attempts' = [attempts EXCEPT ![m] = @ + 1]
    /\ disp' = [disp EXCEPT ![m] = s.disp]
    /\ msgState' = [msgState EXCEPT ![m] = s.state]
    /\ trace' = [trace EXCEPT ![m] = Append(tr, IF s.err THEN "MessageProcessError" ELSE d)]
    /\ raised' = [raised EXCEPT ![m] = IF s.err THEN "MessageProcessError" ELSE exc]
    /\ pc' = [pc EXCEPT ![m] = IF s.err /\ nextpc # "done" THEN "exit_exc" ELSE nextpc]

\* An exception raised inside the try block: the matching except clause
\* rejects the message; the callback then leaves message.process() either
\* normally or with the exception re-raised.
OnException(m, exc, tr) ==
    Dispose(m,
            IF ExceptClause(exc).requeue THEN "reject_requeue" ELSE "reject",
            tr,
            IF ExceptClause(exc).reraise THEN "exit_exc" ELSE "exit_ok",
            IF ExceptClause(exc).reraise THEN exc ELSE "none")

(***************************************************************************)
(* Event bus: initial state                                                *)
(***************************************************************************)
InitBus ==
    /\ msgBody = [m \in Messages |-> NoBody]
    /\ msgState = [m \in Messages |-> "unpublished"]
    /\ pc = [m \in Messages |-> "idle"]
    /\ trace = [m \in Messages |-> <<>>]
    /\ disp = [m \in Messages |-> <<>>]
    /\ attempts = [m \in Messages |-> 0]
    /\ raised = [m \in Messages |-> "none"]
    /\ dupAtStart = [m \in Messages |-> FALSE]
    /\ deliveries = [m \in Messages |-> 0]
    /\ redis = {}
    /\ invoked = [e \in EventIds |-> 0]
    /\ completed = [e \in EventIds |-> 0]

RestOfBus == UNCHANGED <<limVars, reqVars, scopeVars, storeVars, appVars>>

(***************************************************************************)
(* Event bus: actions                                                      *)
(***************************************************************************)
\* A publisher sends a message with body b.  Two messages may carry the same
\* event_id (the same event published twice).
Publish(m, b) ==
    /\ msgState[m] = "unpublished"
    /\ msgBody' = [msgBody EXCEPT ![m] = b]
    /\ msgState' = [msgState EXCEPT ![m] = "ready"]
    /\ UNCHANGED <<pc, trace, disp, attempts, raised, dupAtStart, deliveries,
                   redis, invoked, completed>>
    /\ RestOfBus

\* The broker delivers a ready message: queue.consume starts on_message for
\* it as a task of its own, so callbacks of different messages overlap.
\* A requeued message is delivered again once its previous callback has left
\* message.process().
Deliver(m) ==
    /\ msgState[m] = "ready"
    /\ pc[m] \in {"idle", "done"}
    /\ deliveries[m] < MaxDeliveries
    /\ deliveries' = [deliveries EXCEPT ![m] = @ + 1]
    /\ msgState' = [msgState EXCEPT ![m] = "unacked"]
    /\ pc' = [pc EXCEPT ![m] = "parse"]
    /\ trace' = [trace EXCEPT ![m] = <<>>]
    /\ disp' = [disp EXCEPT ![m] = <<>>]
    /\ attempts' = [attempts EXCEPT ![m] = 0]
    /\ raised' = [raised EXCEPT ![m] = "none"]
    /\ dupAtStart' = [dupAtStart EXCEPT ![m] = FALSE]
    /\ UNCHANGED <<msgBody, redis, invoked, completed>>
    /\ RestOfBus

\* on_message up to the first call of the event store: parse the body, read
\* event_id, reject a message that has none.
Parse(m) ==
    LET p == ParseBody(msgBody[m])
        tr == Append(trace[m], "parse")
    IN
    /\ pc[m] = "parse"
    /\ IF p.exc # "none"
       THEN /\ OnException(m, p.exc, tr)
            /\ UNCHANGED dupAtStart
       ELSE IF MissingEventId(p.event_id)
       THEN /\ Dispose(m, "reject", tr, "exit_ok", "none")
            /\ UNCHANGED dupAtStart
       ELSE /\ pc' = [pc EXCEPT ![m] = "is_processed"]
            /\ trace' = [trace EXCEPT ![m] = tr]
            /\ dupAtStart' = [dupAtStart EXCEPT ![m] = p.event_id \in redis]
            /\ UNCHANGED <<disp, attempts, raised, msgState>>
    /\ UNCHANGED <<msgBody, deliveries, redis, invoked, completed>>
    /\ RestOfBus

\* Mutant of InvokeHandler: the event is marked processed before the handler
\* is invoked.
InvokeHandler_MarkFirst(m, tr) ==
    /\ pc' = [pc EXCEPT ![m] = "handler"]
    /\ trace' = [trace EXCEPT ![m] = tr \o <<"mark", "handler">>]
    /\ redis' = mark_as_processed(redis, msgBody[m].event_id)
    /\ invoked' = [invoked EXCEPT ![msgBody[m].event_id] = @ + 1]

\* `await handler(data)`: the event is novel, the handler is invoked.
InvokeHandler(m, tr) ==
    /\ pc' = [pc EXCEPT ![m] = "handler"]
    /\ trace' = [trace EXCEPT ![m] = Append(tr, "handler")]
    /\ invoked' = [invoked EXCEPT ![msgBody[m].event_id] = @ + 1]
    /\ UNCHANGED redis

\* `if await self.event_store.is_processed(event_id)`: the store answers
\* (or raises RedisError); a duplicate returns, a novel event is handled.
IsProcessedReturns(m, r) ==
    /\ pc[m] = "is_processed"
    /\ IF r = "RedisError"
       THEN /\ OnException(m, "RedisError", Append(trace[m], "RedisError"))
            /\ UNCHANGED <<redis, invoked>>
       ELSE IF is_processed(redis, msgBody[m].event_id)
       THEN /\ pc' = [pc EXCEPT ![m] = "exit_ok"]
            /\ trace' = [trace EXCEPT ![m] = Append(@, "is_processed")]
            /\ UNCHANGED <<disp, attempts, raised, msgState, redis, invoked>>
       ELSE /\ InvokeHandler(m, Append(trace[m], "is_processed"))
            /\ UNCHANGED <<disp, attempts, raised, msgState>>
    /\ UNCHANGED <<msgBody, dupAtStart, deliveries, completed>>
    /\ RestOfBus

\* The handler returns or raises.
HandlerReturns(m, out) ==
    /\ pc[m] = "handler"
    /\ IF out = "ok"
       THEN /\ pc' = [pc EXCEPT ![m] = "mark"]
            /\ trace' = [trace EXCEPT ![m] = Append(@, "handler_ok")]
            /\ completed' = [completed EXCEPT ![msgBody[m].event_id] = @ + 1]
            /\ UNCHANGED <<disp, attempts, raised, msgState>>
       ELSE /\ OnException(m, out, Append(trace[m], "handler_raised"))
            /\ UNCHANGED completed
    /\ UNCHANGED <<msgBody, dupAtStart, deliveries, redis, invoked>>
    /\ RestOfBus

\* `await self.event_store.mark_as_processed(event_id)` returns or raises.
MarkReturns(m, r) ==
    /\ pc[m] = "mark"
    /\ IF r = "RedisError"
       THEN /\ OnException(m, "RedisError", Append(trace[m], "RedisError"))
            /\ UNCHANGED redis
       ELSE /\ redis' = mark_as_processed(redis, msgBody[m].event_id)
            /\ pc' = [pc EXCEPT ![m] = "exit_ok"]
            /\ trace' = [trace EXCEPT ![m] = Append(@, "mark")]
            /\ UNCHANGED <<disp, attempts, raised, msgState>>
    /\ UNCHANGED <<msgBody, dupAtStart, deliveries, invoked, completed>>
    /\ RestOfBus

\* Leaving `async with message.process()`: without an exception the message
\* is acked, with one it is rejected without requeue (process() defaults:
\* requeue=False, ignore_processed=False).
ProcessExit(m) ==
    /\ pc[m] \in {"exit_ok", "exit_exc"}
    /\ IF pc[m] = "exit_ok"
       THEN Dispose(m, "ack", trace[m], "done", "none")
       ELSE Dispose(m, "reject", trace[m], "done", raised[m])
    /\ UNCHANGED <<msgBody, dupAtStart, deliveries, redis, invoked, completed>>
    /\ RestOfBus

NextBus ==
    \/ \E m \in Messages, b \in Bodies : Publish(m, b)
    \/ \E m \in Messages : Deliver(m)
    \/ \E m \in Messages : Parse(m)
    \/ \E m \in Messages, r \in StoreOutcomes : IsProcessedReturns(m, r)
    \/ \E m \in Messages, out \in HandlerOutcomes : HandlerReturns(m, out)
    \/ \E m \in Messages, r \in StoreOutcomes : MarkReturns(m, r)
    \/ \E m \in Messages : ProcessExit(m)

(***************************************************************************)
(* RateLimiter (api.py).  Time is counted in units of RateLimiter.delay =   *)
(* interval / rate_limit, so interval is rate_limit units long and the     *)
(* refill task wakes once per unit.                                        *)
(***************************************************************************)
Callers == 1..MaxCallers
Times == 0..MaxTime

\* RateLimiter.__init__: an empty queue of maxsize rate_limit, the refill
\* task created, _active set.
InitLimiter ==
    /\ rate_limit \in 1..MaxRateLimit
    /\ queue = 0
    /\ getters = <<>>
    /\ active = TRUE
    /\ task = "running"
    /\ stopped = <<>>
    /\ now = 0
    /\ apc = [c \in Callers |-> "idle"]
    /\ acquiredAt = [t \in Times |-> 0]

\* No limiter constructed.
LimiterAtRest ==
    /\ rate_limit = 1
    /\ queue = 0
    /\ getters = <<>>
    /\ active = FALSE
    /\ task = "none"
    /\ stopped = <<>>
    /\ now = 0
    /\ apc = [c \in Callers |-> "idle"]
    /\ acquiredAt = [t \in Times |-> 0]

RestOfLimiter == UNCHANGED <<busVars, reqVars, scopeVars, storeVars, appVars>>

\* Mutant of put_nowait: the queue has no maxsize.
put_nowait_unbounded ==
    /\ queue' = queue + 1
    /\ IF getters = <<>>
       THEN UNCHANGED <<getters, apc>>
       ELSE /\ getters' = Tail(getters)
            /\ apc' = [apc EXCEPT ![Head(getters)] = "woken"]

\* Mutant of put_nowait: the token is dropped one short of the capacity.
put_nowait_off_by_one ==
    IF queue + 1 >= rate_limit
    THEN UNCHANGED <<queue, getters, apc>>
    ELSE /\ queue' = queue + 1
         /\ IF getters = <<>>
            THEN UNCHANGED <<getters, apc>>
            ELSE /\ getters' = Tail(getters)
                 /\ apc' = [apc EXCEPT ![Head(getters)] = "woken"]

\* asyncio.Queue.put_nowait under contextlib.suppress(QueueFull): a full
\* queue drops the token; otherwise the token is stored and the first
\* suspended getter is woken.
put_nowait ==
    IF queue >= rate_limit
    THEN UNCHANGED <<queue, getters, apc>>
    ELSE /\ queue' = queue + 1
         /\ IF getters = <<>>
            THEN UNCHANGED <<getters, apc>>
            ELSE /\ getters' = Tail(getters)
                 /\ apc' = [apc EXCEPT ![Head(getters)] = "woken"]

\* One delay period passes; _fill_tokens, if it is still running, wakes
\* from asyncio.sleep(self.delay), puts one token and tests
\* `while self._active` again: it sleeps once more or returns.
Tick ==
    /\ now < MaxTime
    /\ now' = now + 1
    /\ IF task = "running"
       THEN /\ put_nowait
            /\ task' = IF active THEN "running" ELSE "finished"
       ELSE UNCHANGED <<queue, getters, apc, task>>
    /\ UNCHANGED <<rate_limit, active, stopped, acquiredAt>>
    /\ RestOfLimiter

\* _fill_tokens runs one round of its loop, whatever the clock says: the
\* refill task goes on putting tokens for as long as it is running.
Refill ==
    /\ task = "running"
    /\ put_nowait
    /\ task' = IF active THEN "running" ELSE "finished"
    /\ UNCHANGED <<rate_limit, active, stopped, now, acquiredAt>>
    /\ RestOfLimiter

\* Mutant of get: an empty queue does not suspend the caller, the call
\* returns without a token.
get_no_wait(c) ==
    /\ queue' = IF queue > 0 THEN queue - 1 ELSE queue
    /\ apc' = [apc EXCEPT ![c] = "idle"]
    /\ acquiredAt' = [acquiredAt EXCEPT ![now] = @ + 1]
    /\ UNCHANGED getters

\* asyncio.Queue.get, one pass of `while self.empty()`: take a token if
\* there is one, else suspend at the end of the getters.  The completions
\* of a period are counted up to MaxTime + 1, which is more than the clock's
\* MaxTime refills can serve.
get(c) ==
    IF queue > 0
    THEN /\ queue' = queue - 1
         /\ apc' = [apc EXCEPT ![c] = "idle"]
         /\ acquiredAt' = [acquiredAt EXCEPT ![now] = IF @ <= MaxTime THEN @ + 1 ELSE @]
         /\ UNCHANGED getters
    ELSE /\ getters' = Append(getters, c)
         /\ apc' = [apc EXCEPT ![c] = "waiting"]
         /\ UNCHANGED <<queue, acquiredAt>>

\* RateLimiter.acquire is called by task c.
Acquire(c) ==
    /\ apc[c] = "idle"
    /\ get(c)
    /\ UNCHANGED <<rate_limit, active, task, stopped, now>>
    /\ RestOfLimiter

\* A getter woken by put_nowait runs again and re-tests the queue.
AcquireResume(c) ==
    /\ apc[c] = "woken"
    /\ get(c)
    /\ UNCHANGED <<rate_limit, active, task, stopped, now>>
    /\ RestOfLimiter

\* Mutant of cancel: the task is left as it is.
cancel_noop(t) == t

\* Task.cancel(): a task suspended in asyncio.sleep is cancelled there; a
\* task that is already done stays as it is.
cancel(t) == IF t = "running" THEN "cancelled" ELSE t

\* contextlib.suppress(asyncio.CancelledError)
suppress_cancelled(exc) == IF exc = "CancelledError" THEN "returned" ELSE exc

\* `with contextlib.suppress(asyncio.CancelledError): await self._task`:
\* awaiting a cancelled task raises CancelledError, a finished one returns.
await_task(t) ==
    suppress_cancelled(IF t = "cancelled" THEN "CancelledError" ELSE "returned")

\* Mutant of stop_limiter: the flag is cleared but the task is not cancelled.
stop_limiter_flag_only ==
    /\ active' = FALSE
    /\ task' = task
    /\ stopped' = Append(stopped, "returned")

\* The body of RateLimiter.stop.
stop_limiter ==
    /\ active' = FALSE
    /\ task' = cancel(task)
    /\ stopped' = Append(stopped, await_task(cancel(task)))

\* RateLimiter.stop is called (any number of times).
Stop ==
    /\ task # "none"
    /\ Len(stopped) < MaxStops
    /\ stop_limiter
    /\ UNCHANGED <<rate_limit, queue, getters, now, apc, acquiredAt>>
    /\ RestOfLimiter

NextLimiter ==
    \/ Tick
    \/ \E c \in Callers : Acquire(c)
    \/ \E c \in Callers : AcquireResume(c)
    \/ Stop

(***************************************************************************)
(* AIOHTTPAPIClientAdapter.request (api.py): _request wrapped by tenacity  *)
(***************************************************************************)
ScriptLen == MaxRetriesBound + 1

\* What session.request can do on one call: raise before any response, or
\* deliver a response with a status; "garbled" is a response with status
\* 200 whose body is not JSON.
ScriptEntries ==
    {[kind |-> "response", cls |-> "none", status |-> s] : s \in {200, 400, 500}}
    \cup {[kind |-> "garbled", cls |-> "none", status |-> 200]}
    \cup {[kind |-> "raise", cls |-> c, status |-> 0] :
            c \in {"ClientConnectionError", "ServerDisconnectedError", "TimeoutError"}}

NoOutcome == [kind |-> "none", cls |-> "none", status |-> 0]
NoResult == [kind |-> "none", exc |-> "none", last |-> NoOutcome]

\* aiohttp's exception hierarchy: ClientResponseError, ClientConnectionError
\* and ServerDisconnectedError derive from ClientError; asyncio.TimeoutError
\* does not.
IsClientError(cls) ==
    cls \in {"ClientError", "ClientResponseError", "ClientConnectionError",
             "ServerDisconnectedError"}

\* response.raise_for_status()
raise_for_status(status) == status >= 400

\* Mutant of RequestOutcome: the status error is re-raised without the
\* status of the response.
RequestOutcome_StatusLost(e) ==
    IF e.kind = "raise" THEN [kind |-> "raise", cls |-> e.cls, status |-> 0]
    ELSE IF raise_for_status(e.status)
    THEN [kind |-> "raise", cls |-> "ClientResponseError", status |-> 0]
    ELSE IF e.kind = "garbled"
    THEN [kind |-> "raise", cls |-> "JSONDecodeError", status |-> 0]
    ELSE [kind |-> "return", cls |-> "none", status |-> e.status]

\* One run of _request against script entry e: the exception it raises, or
\* the parsed body it returns.  Both except clauses log and re-raise; what
\* `await response.json()` raises on a body that is not JSON is caught by
\* neither.
RequestOutcome(e) ==
    IF e.kind = "raise" THEN [kind |-> "raise", cls |-> e.cls, status |-> 0]
    ELSE IF raise_for_status(e.status)
    THEN [kind |-> "raise", cls |-> "ClientResponseError", status |-> e.status]
    ELSE IF e.kind = "garbled"
    THEN [kind |-> "raise", cls |-> "JSONDecodeError", status |-> 0]
    ELSE [kind |-> "return", cls |-> "none", status |-> e.status]

\* Mutant of retry_predicate: every exception is retried.
retry_predicate_any(o) == o.kind = "raise"

\* Mutant of retry_predicate: only connection-level errors are retried, a
\* status error is not.
retry_predicate_transport_only(o) ==
    o.kind = "raise" /\ IsClientError(o.cls) /\ o.cls # "ClientResponseError"

\* retry_if_exception(lambda error: isinstance(error, aiohttp.ClientError))
retry_predicate(o) == o.kind = "raise" /\ IsClientError(o.cls)

\* Mutant of stop_after_attempt: gives up one attempt early.
stop_after_attempt_early(n, limit) == n + 1 >= limit

\* Mutant of stop_after_attempt: allows one attempt more.
stop_after_attempt_late(n, limit) == n > limit

\* stop_after_attempt(max_retries)
stop_after_attempt(n, limit) == n >= limit

\* Mutant of wait_exponential: the same wait before every retry.
wait_fixed(multiplier, n) == multiplier

\* exp_base ** n for tenacity's default exp_base = 2
RECURSIVE Pow2(_)
Pow2(n) == IF n <= 0 THEN 1 ELSE 2 * Pow2(n - 1)

\* wait_exponential(multiplier=backoff_start), called by tenacity with the
\* number n of the attempt that has just failed: multiplier *
\* exp_base ** (n - 1), not below min = 0.  Its cap, max = sys.maxsize / 2
\* seconds, is beyond every wait that occurs here.
wait_exponential(multiplier, n) ==
    IF multiplier * Pow2(n - 1) < 0 THEN 0 ELSE multiplier * Pow2(n - 1)

\* The request of a client constructed with the default backoff_start.
InitRetry ==
    /\ max_retries \in 0..MaxRetriesBound
    /\ backoff_start = 1
    /\ waits = <<>>
    /\ script \in [1..ScriptLen -> ScriptEntries]
    /\ rpc = "idle"
    /\ acquired = 0
    /\ attempt_number = 1
    /\ calls = 0
    /\ outcome = NoOutcome
    /\ result = NoResult

RetryAtRest ==
    /\ max_retries = 0
    /\ backoff_start = 1
    /\ waits = <<>>
    /\ script = [i \in 1..ScriptLen |-> [kind |-> "response", cls |-> "none", status |-> 200]]
    /\ rpc = "idle"
    /\ acquired = 0
    /\ attempt_number = 1
    /\ calls = 0
    /\ outcome = NoOutcome
    /\ result = NoResult

RestOfRetry == UNCHANGED <<busVars, limVars, scopeVars, storeVars, appVars>>

\* client.request(url, ...) is called: tenacity begins the first attempt.
StartRequest ==
    /\ rpc = "idle"
    /\ rpc' = "attempt"
    /\ UNCHANGED <<max_retries, backoff_start, waits, script, acquired, attempt_number, calls,
                   outcome, result>>
    /\ RestOfRetry

\* The task that runs the request, as a caller of the rate limiter.
ClientTask == CHOOSE c \in Callers : \A d \in Callers : c <= d

\* Mutant of acquires_before_attempt: only the first attempt takes a token.
acquires_before_attempt_first_only(n) == task # "none" /\ n = 1

\* `if self.rate_limiter:` at the head of _request, which tenacity runs for
\* every attempt n; rate_limiter is None unless a rate_limit was given.
acquires_before_attempt(n) == task # "none"

\* One pass of RateLimiter.acquire by the request: where _request continues
\* and how many tokens it then holds.
AcquireForRequest ==
    /\ get(ClientTask)
    /\ rpc' = IF queue > 0 THEN "call" ELSE "acquire"
    /\ acquired' = IF queue > 0 THEN acquired + 1 ELSE acquired
    /\ UNCHANGED <<rate_limit, active, task, stopped, now>>

\* The head of _request: with a rate limiter the attempt first awaits
\* acquire(), without one it goes straight to the HTTP call.
RateLimit ==
    /\ rpc = "attempt"
    /\ IF acquires_before_attempt(attempt_number)
       THEN AcquireForRequest
       ELSE /\ rpc' = "call"
            /\ UNCHANGED <<acquired, limVars>>
    /\ UNCHANGED <<max_retries, backoff_start, waits, script, attempt_number, calls, outcome,
                   result>>
    /\ UNCHANGED <<busVars, scopeVars, storeVars, appVars>>

\* The request, suspended in acquire() and woken by a refill, tests the
\* queue again.
RateLimitResume ==
    /\ rpc = "acquire"
    /\ apc[ClientTask] = "woken"
    /\ AcquireForRequest
    /\ UNCHANGED <<max_retries, backoff_start, waits, script, attempt_number, calls, outcome,
                   result>>
    /\ UNCHANGED <<busVars, scopeVars, storeVars, appVars>>

\* One attempt: _request issues the HTTP call and returns or raises.
HttpCall ==
    /\ rpc = "call"
    /\ calls < ScriptLen
    /\ calls' = calls + 1
    /\ outcome' = RequestOutcome(script[calls + 1])
    /\ rpc' = "decide"
    /\ UNCHANGED <<max_retries, backoff_start, waits, script, acquired, attempt_number, result>>
    /\ RestOfRetry

\* tenacity after an attempt: return the result, re-raise an exception the
\* predicate does not accept, raise RetryError when stop says so, otherwise
\* sleep and try again.
RetryDecision ==
    /\ rpc = "decide"
    /\ IF outcome.kind = "return"
       THEN /\ rpc' = "returned"
            /\ result' = [kind |-> "returned", exc |-> "none", last |-> outcome]
            /\ UNCHANGED waits
       ELSE IF ~retry_predicate(outcome)
       THEN /\ rpc' = "raised"
            /\ result' = [kind |-> "raised", exc |-> outcome.cls, last |-> outcome]
            /\ UNCHANGED waits
       ELSE IF stop_after_attempt(attempt_number, max_retries)
       THEN /\ rpc' = "raised"
            /\ result' = [kind |-> "raised", exc |-> "RetryError", last |-> outcome]
            /\ UNCHANGED waits
       ELSE /\ rpc' = "sleep"
            /\ waits' = Append(waits, wait_exponential(backoff_start, attempt_number))
            /\ UNCHANGED result
    /\ UNCHANGED <<max_retries, backoff_start, script, acquired, attempt_number, calls, outcome>>
    /\ RestOfRetry

\* The backoff sleep ends; the next attempt begins.
BackoffElapsed ==
    /\ rpc = "sleep"
    /\ attempt_number' = attempt_number + 1
    /\ rpc' = "attempt"
    /\ UNCHANGED <<max_retries, backoff_start, waits, script, acquired, calls, outcome, result>>
    /\ RestOfRetry

NextRetry ==
    \/ StartRequest
    \/ RateLimit
    \/ HttpCall
    \/ RetryDecision
    \/ BackoffElapsed

(***************************************************************************)
(* Client scope: `async with client:`                                      *)
(***************************************************************************)
\* What the body of the scope can end with: None when it returns.
BodyOutcomes == {None, "ValueError", "RetryError", "CancelledError"}

InitScope ==
    /\ session = "none"
    /\ spc = "outside"
    /\ bodyExc = None
    /\ propagated = <<>>

RestOfScope == UNCHANGED <<busVars, reqVars, storeVars, appVars>>

\* __aenter__: a new ClientSession is created.
ClientEnter ==
    /\ spc \in {"outside", "exited"}
    /\ Len(propagated) < MaxScopes
    /\ session' = "open"
    /\ spc' = "inside"
    /\ bodyExc' = None
    /\ UNCHANGED <<propagated, limVars>>
    /\ RestOfScope

\* The body of the scope returns or raises; either way __aexit__ is next.
BodyEnds(e) ==
    /\ spc = "inside"
    /\ rpc \in {"idle", "returned", "raised"}
    /\ spc' = "exiting"
    /\ bodyExc' = e
    /\ UNCHANGED <<session, propagated, limVars>>
    /\ RestOfScope

\* Mutant of ClientExit: nothing is cleaned up when the body raised.
ClientExit_SkipOnError ==
    /\ spc = "exiting"
    /\ session' = IF bodyExc = None THEN "closed" ELSE session
    /\ IF task # "none" /\ bodyExc = None
       THEN stop_limiter
       ELSE UNCHANGED <<active, task, stopped>>
    /\ spc' = "exited"
    /\ propagated' = Append(propagated, bodyExc)
    /\ UNCHANGED <<bodyExc, rate_limit, queue, getters, now, apc, acquiredAt>>
    /\ RestOfScope

\* __aexit__(*exc_info): the session is closed, then the rate limiter, if
\* there is one, is stopped; it returns None, so what the body raised goes on
\* to the caller of the scope.
ClientExit ==
    /\ spc = "exiting"
    /\ session' = "closed"
    /\ IF task # "none"
       THEN stop_limiter
       ELSE UNCHANGED <<active, task, stopped>>
    /\ spc' = "exited"
    /\ propagated' = Append(propagated, bodyExc)
    /\ UNCHANGED <<bodyExc, rate_limit, queue, getters, now, apc, acquiredAt>>
    /\ RestOfScope

\* Inside the scope the body calls client.request(...).
ScopedRequest ==
    /\ spc = "inside"
    /\ StartRequest

NextScope ==
    \/ ClientEnter
    \/ \E e \in BodyOutcomes : BodyEnds(e)
    \/ ClientExit
    \/ Tick

(***************************************************************************)
(* Idempotency store adapter (RedisEventStoreAdapter)                      *)
(***************************************************************************)
InitStore ==
    /\ self_redis = "none"
    /\ factoryCalls = <<>>
    /\ storeCalls = <<>>
    /\ storeNow = 0
    /\ elapses = 0
    /\ expireAt = [e \in EventIds |-> 0]

StoreAtRest == InitStore

\* The `ex` argument of set(): 30 days, in seconds.
ex == 2592000

\* Mutant of expire_after: the marker is given no lifetime at all.
expire_after_none(t) == t

\* When a key set at time t with ex = 2592000 expires.
expire_after(t) == t + ex

\* The keys the backing store still holds at time t: a key set with an
\* expiry exists until its lifetime has elapsed.
unexpired(keys, exp, t) == {e \in keys : exp[e] > t}

\* Mutant of initialize: the connection is made on every call.
initialize_always_connects(c, f) ==
    IF f = "ok"
    THEN [redis |-> "connection", factory |-> <<f>>, raised |-> None]
    ELSE [redis |-> "none", factory |-> <<f>>, raised |-> f]

\* initialize(): `if not self.redis:` the connection is made by
\* Redis.from_url, whose outcome is f; a RedisError is logged and re-raised
\* with self.redis still unset.
initialize(c, f) ==
    IF c = "none"
    THEN IF f = "ok"
         THEN [redis |-> "connection", factory |-> <<f>>, raised |-> None]
         ELSE [redis |-> "none", factory |-> <<f>>, raised |-> f]
    ELSE [redis |-> c, factory |-> <<>>, raised |-> None]

\* What a method of the adapter did: the new self.redis, the from_url calls
\* made, the new key set, the error the backing store raised (or None) and
\* what the caller got.
StoreEffect(i, keys, err, res) ==
    [redis |-> i.redis, factory |-> i.factory, keys |-> keys,
     backend |-> err, result |-> res]

\* Mutant of is_processed_call: a failed existence check answers False.
is_processed_call_default_on_error(c, keys, e, f, b) ==
    LET i == initialize(c, f) IN
    IF i.raised # None THEN StoreEffect(i, keys, i.raised, "False")
    ELSE IF b # "ok" THEN StoreEffect(i, keys, b, "False")
    ELSE StoreEffect(i, keys, None, IF is_processed(keys, e) THEN "True" ELSE "False")

\* is_processed(event_id): initialize(), then exists(event_id), whose
\* outcome is b; a RedisError is logged and re-raised.
is_processed_call(c, keys, e, f, b) ==
    LET i == initialize(c, f) IN
    IF i.raised # None THEN StoreEffect(i, keys, i.raised, i.raised)
    ELSE IF b # "ok" THEN StoreEffect(i, keys, b, b)
    ELSE StoreEffect(i, keys, None, IF is_processed(keys, e) THEN "True" ELSE "False")

\* mark_as_processed(event_id): initialize(), then set(event_id, ...), whose
\* outcome is b; a RedisError is logged and re-raised.
mark_as_processed_call(c, keys, e, f, b) ==
    LET i == initialize(c, f) IN
    IF i.raised # None THEN StoreEffect(i, keys, i.raised, i.raised)
    ELSE IF b # "ok" THEN StoreEffect(i, keys, b, b)
    ELSE StoreEffect(i, mark_as_processed(keys, e), None, None)

\* initialize() called directly, as the event bus does on scope entry.
initialize_call(c, keys, f) ==
    LET i == initialize(c, f) IN
    StoreEffect(i, keys, i.raised, i.raised)

\* close(): `if self.redis:` the connection is closed, with outcome b; a
\* RedisError is logged and re-raised.  self.redis is left as it is.
close(c, keys, b) ==
    LET i == [redis |-> c, factory |-> <<>>, raised |-> None] IN
    IF c = "none" THEN StoreEffect(i, keys, None, None)
    ELSE IF b # "ok" THEN StoreEffect(i, keys, b, b)
    ELSE StoreEffect(i, keys, None, None)

\* One call on the adapter takes effect and is recorded.
StoreCall(op, e, eff) ==
    /\ Len(storeCalls) < MaxStoreCalls
    /\ self_redis' = eff.redis
    /\ factoryCalls' = factoryCalls \o eff.factory
    /\ redis' = eff.keys
    /\ storeCalls' = Append(storeCalls,
           [op |-> op, event_id |-> e, had |-> self_redis, at |-> storeNow,
            backend |-> eff.backend, result |-> eff.result])
    /\ UNCHANGED <<storeNow, elapses>>
    /\ UNCHANGED <<msgBody, msgState, pc, trace, disp, attempts, raised,
                   dupAtStart, deliveries, invoked, completed>>
    /\ UNCHANGED <<limVars, reqVars, scopeVars, appVars>>

StoreInitialize(f) ==
    /\ StoreCall("initialize", None, initialize_call(self_redis, redis, f))
    /\ UNCHANGED expireAt

StoreIsProcessed(e, f, b) ==
    /\ StoreCall("is_processed", e, is_processed_call(self_redis, redis, e, f, b))
    /\ UNCHANGED expireAt

\* A set() that succeeded gives the key a new lifetime.
StoreMarkAsProcessed(e, f, b) ==
    LET eff == mark_as_processed_call(self_redis, redis, e, f, b) IN
    /\ StoreCall("mark_as_processed", e, eff)
    /\ expireAt' = IF eff.backend = None
                   THEN [expireAt EXCEPT ![e] = expire_after(storeNow)]
                   ELSE expireAt

StoreClose(b) ==
    /\ StoreCall("close", None, close(self_redis, redis, b))
    /\ UNCHANGED expireAt

\* How far the clock is advanced in one step: to the last second of a
\* marker's lifetime, or by one second.
Durations == {ex - 1, 1}

\* Time passes in the backing store, which drops the keys that expired.
StoreTimePasses(d) ==
    /\ elapses < MaxElapses
    /\ elapses' = elapses + 1
    /\ storeNow' = storeNow + d
    /\ redis' = unexpired(redis, expireAt, storeNow + d)
    /\ UNCHANGED <<self_redis, factoryCalls, storeCalls, expireAt>>
    /\ UNCHANGED <<msgBody, msgState, pc, trace, disp, attempts, raised,
                   dupAtStart, deliveries, invoked, completed>>
    /\ UNCHANGED <<limVars, reqVars, scopeVars, appVars>>

NextStore ==
    \/ \E f \in StoreOutcomes : StoreInitialize(f)
    \/ \E e \in EventIds, f \in StoreOutcomes, b \in StoreOutcomes : StoreIsProcessed(e, f, b)
    \/ \E e \in EventIds, f \in StoreOutcomes, b \in StoreOutcomes : StoreMarkAsProcessed(e, f, b)
    \/ \E b \in StoreOutcomes : StoreClose(b)

(***************************************************************************)
(* Event bus adapter, broker side (RabbitMQEventBusAdapter): connect,      *)
(* publish, subscribe, close.  A task that awaits the broker is suspended  *)
(* and other tasks run meanwhile.                                          *)
(***************************************************************************)
BusTasks == 1..MaxBusTasks

\* Event.event_type is the name of the event's class.
EventTypes == {"UpdateFinancialInstruments", "Notification"}

\* name=f"{event_name}_queue"
QueueName(event_name) == event_name \o "_queue"

QueueNames == {QueueName(ty) : ty \in EventTypes}

NoOp == [op |-> "none", event_type |-> None]

InitBroker ==
    /\ connection = "none"
    /\ channel = "none"
    /\ exchange = 0
    /\ connectsMade = 0
    /\ channelsOpened = 0
    /\ closeCalls = [channel |-> 0, connection |-> 0]
    /\ bpc = [t \in BusTasks |-> "idle"]
    /\ bop = [t \in BusTasks |-> NoOp]
    /\ busOps = 0
    /\ bindings = {}
    /\ received = [q \in QueueNames |-> <<>>]
    /\ sent = <<>>
    /\ publishCalls = 0
    /\ busLog = <<>>

BrokerAtRest == InitBroker

RestOfBroker ==
    UNCHANGED <<busVars, limVars, reqVars, scopeVars, uowVars, updVars, schedVars, ctorVars>>

StoreUntouched == UNCHANGED storeVars

\* `if not self.exchange:` the exchange is declared unless there is one.
exchange_stage(exch) == IF exch = 0 THEN "await_declare" ELSE "connected"

\* `if not self.channel or self.channel.is_closed:` a channel is opened.
channel_stage(chan, exch) ==
    IF chan \in {"none", "closed"} THEN "await_channel" ELSE exchange_stage(exch)

\* `if not self.connection or self.connection.is_closed:` connect_robust is
\* awaited.
connect_stage(conn, chan, exch) ==
    IF conn \in {"none", "closed"} THEN "await_connect" ELSE channel_stage(chan, exch)

\* How a topic exchange matches a binding key against a one-word routing key.
topic_matches(pattern, key) == pattern \in {"#", "*"} \/ pattern = key

\* The exchange hands a message to every queue with a matching binding.
route(rcv, binds, msg) ==
    [q \in DOMAIN rcv |->
        IF \E b \in binds : b.queue = q /\ topic_matches(b.key, msg.routing_key)
        THEN Append(rcv[q], msg)
        ELSE rcv[q]]

\* Mutant of Message: the routing key is the same for every event.
Message_FixedKey(event_name) ==
    [routing_key |-> "events", delivery_mode |-> "PERSISTENT", event_type |-> event_name]

\* aio_pika.Message(..., delivery_mode=PERSISTENT), published with
\* routing_key=event_name.
Message(event_name) ==
    [routing_key |-> event_name, delivery_mode |-> "PERSISTENT", event_type |-> event_name]

\* The exchange object can take a message while the channel it was declared
\* on is the open one.
ExchangeUsable == channel = "open" /\ exchange = channelsOpened

Finish(t, res) ==
    /\ bpc' = [bpc EXCEPT ![t] = "idle"]
    /\ busLog' = Append(busLog, [task |-> t, op |-> bop[t].op,
                                 event_type |-> bop[t].event_type, result |-> res])

\* A task calls connect(), publish(event) or subscribe(event_name, handler),
\* each of which begins with connect().
BusBegin(t, op, ty) ==
    /\ bpc[t] = "idle"
    /\ busOps < MaxBusOps
    /\ busOps' = busOps + 1
    /\ bop' = [bop EXCEPT ![t] = [op |-> op, event_type |-> ty]]
    /\ bpc' = [bpc EXCEPT ![t] = "connect"]
    /\ UNCHANGED <<connection, channel, exchange, connectsMade, channelsOpened,
                   closeCalls, bindings, received, sent, publishCalls, busLog>>
    /\ StoreUntouched
    /\ RestOfBroker

\* __aenter__: event_store.initialize(), then connect().
BusEnter(t, f) ==
    LET i == initialize(self_redis, f) IN
    /\ bpc[t] = "idle"
    /\ busOps < MaxBusOps
    /\ busOps' = busOps + 1
    /\ bop' = [bop EXCEPT ![t] = [op |-> "enter", event_type |-> None]]
    /\ self_redis' = i.redis
    /\ factoryCalls' = factoryCalls \o i.factory
    /\ IF i.raised = None
       THEN /\ bpc' = [bpc EXCEPT ![t] = "connect"]
            /\ UNCHANGED busLog
       ELSE /\ bpc' = bpc
            /\ busLog' = Append(busLog, [task |-> t, op |-> "enter",
                                         event_type |-> None, result |-> i.raised])
    /\ UNCHANGED <<connection, channel, exchange, connectsMade, channelsOpened,
                   closeCalls, bindings, received, sent, publishCalls>>
    /\ UNCHANGED <<redis, storeCalls, storeNow, elapses, expireAt>>
    /\ UNCHANGED <<msgBody, msgState, pc, trace, disp, attempts, raised,
                   dupAtStart, deliveries, invoked, completed>>
    /\ UNCHANGED <<limVars, reqVars, scopeVars, uowVars, updVars, schedVars, ctorVars>>

\* connect() tests the connection and goes on to the first thing missing.
ConnectCheck(t) ==
    /\ bpc[t] = "connect"
    /\ bpc' = [bpc EXCEPT ![t] = connect_stage(connection, channel, exchange)]
    /\ UNCHANGED <<connection, channel, exchange, connectsMade, channelsOpened,
                   closeCalls, bop, busOps, bindings, received, sent,
                   publishCalls, busLog>>
    /\ StoreUntouched
    /\ RestOfBroker

\* `self.connection = await aio_pika.connect_robust(url)` returns or raises
\* AMQPError, which is logged and re-raised.
ConnectRobustReturns(t, out) ==
    /\ bpc[t] = "await_connect"
    /\ IF out = "ok"
       THEN /\ connection' = "open"
            /\ connectsMade' = connectsMade + 1
            /\ bpc' = [bpc EXCEPT ![t] = channel_stage(channel, exchange)]
            /\ UNCHANGED busLog
       ELSE /\ Finish(t, out)
            /\ UNCHANGED <<connection, connectsMade>>
    /\ UNCHANGED <<channel, exchange, channelsOpened, closeCalls, bop, busOps,
                   bindings, received, sent, publishCalls>>
    /\ StoreUntouched
    /\ RestOfBroker

\* `self.channel = await self.connection.channel()` returns.
ChannelReturns(t) ==
    /\ bpc[t] = "await_channel"
    /\ channel' = "open"
    /\ channelsOpened' = channelsOpened + 1
    /\ bpc' = [bpc EXCEPT ![t] = exchange_stage(exchange)]
    /\ UNCHANGED <<connection, exchange, connectsMade, closeCalls, bop, busOps,
                   bindings, received, sent, publishCalls, busLog>>
    /\ StoreUntouched
    /\ RestOfBroker

\* `self.exchange = await self.channel.declare_exchange(...)` returns.
DeclareReturns(t) ==
    /\ bpc[t] = "await_declare"
    /\ exchange' = channelsOpened
    /\ bpc' = [bpc EXCEPT ![t] = "connected"]
    /\ UNCHANGED <<connection, channel, connectsMade, channelsOpened, closeCalls,
                   bop, busOps, bindings, received, sent, publishCalls, busLog>>
    /\ StoreUntouched
    /\ RestOfBroker

\* connect() returned to connect() or __aenter__'s caller.
ConnectDone(t) ==
    /\ bpc[t] = "connected"
    /\ bop[t].op \in {"connect", "enter"}
    /\ Finish(t, None)
    /\ UNCHANGED <<connection, channel, exchange, connectsMade, channelsOpened,
                   closeCalls, bop, busOps, bindings, received, sent, publishCalls>>
    /\ StoreUntouched
    /\ RestOfBroker

\* publish, after connect(): one `await self.exchange.publish(message,
\* routing_key=event_name)`, whose AMQPError is logged and re-raised.  An
\* exchange declared on a channel that has since been closed cannot publish.
PublishSend(t, out) ==
    LET msg == Message(bop[t].event_type)
        res == IF ExchangeUsable THEN out ELSE "AMQPError" IN
    /\ bpc[t] = "connected"
    /\ bop[t].op = "publish"
    /\ publishCalls' = publishCalls + 1
    /\ IF res = "ok"
       THEN /\ sent' = Append(sent, msg)
            /\ received' = route(received, bindings, msg)
            /\ Finish(t, None)
       ELSE /\ Finish(t, res)
            /\ UNCHANGED <<sent, received>>
    /\ UNCHANGED <<connection, channel, exchange, connectsMade, channelsOpened,
                   closeCalls, bop, busOps, bindings>>
    /\ StoreUntouched
    /\ RestOfBroker

\* subscribe, after connect(): the durable queue f"{event_name}_queue" is
\* declared, bound to the exchange with routing_key=event_name and consumed.
SubscribeBinds(t) ==
    /\ bpc[t] = "connected"
    /\ bop[t].op = "subscribe"
    /\ bindings' = bindings \cup
           {[queue |-> QueueName(bop[t].event_type), key |-> bop[t].event_type,
             durable |-> TRUE]}
    /\ Finish(t, None)
    /\ UNCHANGED <<connection, channel, exchange, connectsMade, channelsOpened,
                   closeCalls, bop, busOps, received, sent, publishCalls>>
    /\ StoreUntouched
    /\ RestOfBroker

\* `if self.channel and not self.channel.is_closed: await self.channel.close()`
\* and the same for the connection: what becomes of a channel or connection
\* in state st.
close_guarded(st) == IF st = "open" THEN "closed" ELSE st

\* close(), also run by __aexit__.
BusClose(t) ==
    /\ bpc[t] = "idle"
    /\ busOps < MaxBusOps
    /\ busOps' = busOps + 1
    /\ channel' = close_guarded(channel)
    /\ connection' = close_guarded(connection)
    /\ closeCalls' =
           [channel |-> closeCalls.channel
                            + (IF close_guarded(channel) # channel THEN 1 ELSE 0),
            connection |-> closeCalls.connection
                            + (IF close_guarded(connection) # connection THEN 1 ELSE 0)]
    /\ busLog' = Append(busLog, [task |-> t, op |-> "close",
                                 event_type |-> None, result |-> None])
    /\ UNCHANGED <<exchange, connectsMade, channelsOpened, bpc, bop, bindings,
                   received, sent, publishCalls>>
    /\ StoreUntouched
    /\ RestOfBroker

BrokerStep(t) ==
    \/ \E op \in {"connect", "publish", "subscribe"}, ty \in EventTypes : BusBegin(t, op, ty)
    \/ \E f \in StoreOutcomes : BusEnter(t, f)
    \/ ConnectCheck(t)
    \/ \E out \in {"ok", "AMQPError"} : ConnectRobustReturns(t, out)
    \/ ChannelReturns(t)
    \/ DeclareReturns(t)
    \/ ConnectDone(t)
    \/ \E out \in {"ok", "AMQPError"} : PublishSend(t, out)
    \/ SubscribeBinds(t)
    \/ BusClose(t)

\* The task that owns the bus when it is used by one task only.
MainTask == CHOOSE t \in BusTasks : \A u \in BusTasks : t <= u

NextBroker == BrokerStep(MainTask)

NextBrokerTasks == \E t \in BusTasks : BrokerStep(t)

(***************************************************************************)
(* Unit of work (SQLAlchemyUnitOfWorkAdapter): one AsyncSession per scope. *)
(***************************************************************************)
Rows == {"ABC", "XYZ"}

InitUow ==
    /\ db = {}
    /\ pending = {}
    /\ upc = "outside"
    /\ dbAtEnter = {}
    /\ commits = 0
    /\ units = 0
    /\ lastExit = None
    /\ discarded = {}

UowAtRest == InitUow

RestOfUow ==
    UNCHANGED <<busVars, limVars, reqVars, scopeVars, storeVars, brokerVars, updVars,
                schedVars, ctorVars>>

\* __aenter__: session_factory() makes a new session and enters it.
UowEnter ==
    /\ upc = "outside"
    /\ units < MaxUnits
    /\ units' = units + 1
    /\ upc' = "inside"
    /\ pending' = {}
    /\ dbAtEnter' = db
    /\ commits' = 0
    /\ UNCHANGED <<db, lastExit, discarded>>
    /\ RestOfUow

\* A repository add_*: session.add(row).
UowAdd(r) ==
    /\ upc = "inside"
    /\ pending' = pending \cup {r}
    /\ UNCHANGED <<db, upc, dbAtEnter, commits, units, lastExit, discarded>>
    /\ RestOfUow

\* commit(): session.commit() writes what the session holds, or raises
\* SQLAlchemyError, which is logged and re-raised.
UowCommit(out) ==
    /\ upc = "inside"
    /\ commits < MaxCommits
    /\ IF out = "ok"
       THEN /\ db' = db \cup pending
            /\ pending' = {}
            /\ commits' = commits + 1
       ELSE UNCHANGED <<db, pending, commits>>
    /\ UNCHANGED <<upc, dbAtEnter, units, lastExit, discarded>>
    /\ RestOfUow

\* rollback(): session.rollback() forgets what was not committed.
UowRollback ==
    /\ upc = "inside"
    /\ pending # {}
    /\ pending' = {}
    /\ UNCHANGED <<db, upc, dbAtEnter, commits, units, lastExit, discarded>>
    /\ RestOfUow

\* Mutant of UowExit: leaving the scope commits what is pending.
UowExit_Commits(e) ==
    /\ upc = "inside"
    /\ upc' = "outside"
    /\ lastExit' = e
    /\ discarded' = {}
    /\ db' = db \cup pending
    /\ pending' = {}
    /\ UNCHANGED <<dbAtEnter, commits, units>>
    /\ RestOfUow

\* __aexit__(exc_type, exc_val, exc_tb): session.__aexit__ closes the
\* session, which rolls back whatever was not committed; it does not commit.
UowExit(e) ==
    /\ upc = "inside"
    /\ upc' = "outside"
    /\ lastExit' = e
    /\ discarded' = pending
    /\ pending' = {}
    /\ UNCHANGED <<db, dbAtEnter, commits, units>>
    /\ RestOfUow

NextUow ==
    \/ UowEnter
    \/ \E r \in Rows : UowAdd(r)
    \/ \E out \in {"ok", "SQLAlchemyError"} : UowCommit(out)
    \/ UowRollback
    \/ \E e \in {None, "Exception"} : UowExit(e)

(***************************************************************************)
(* EODHDService.update_financial_instruments(filters): the ticker scans    *)
(* run as concurrent tasks, then the end-of-day scans, then the            *)
(* Notification is published.  Every scan uses the one shared api_client.  *)
(***************************************************************************)
Exchanges == 1..MaxExchanges

ScanKinds == {"tickers", "eod"}

ScanTasks == ScanKinds \X Exchanges

Kind(t) == t[1]

\* A scan task between `async with self.api_client` entry and exit.
InsideClient == {"in2", "in1", "exiting_ok", "exiting_err"}

InitUpdate ==
    /\ upd = "idle"
    /\ started = {}
    /\ scanpc = [t \in ScanTasks |-> "new"]
    /\ requests = {}
    /\ notified = 0

UpdateAtRest == InitUpdate

RestOfUpdate ==
    UNCHANGED <<busVars, reqVars, storeVars, brokerVars, uowVars, schedVars, ctorVars>>

ScopeUntouched == UNCHANGED <<spc, bodyExc, propagated>>

\* The rows a scan task commits, each with the position its update was at
\* when the commit was made.
committed(rows, t, at) == rows \cup {[task |-> t, upd |-> at]}

\* Mutant of siblings_of_failed: the tasks of the gather that have not
\* finished are cancelled.
siblings_cancelled(sc, k) ==
    [t \in ScanTasks |->
        IF Kind(t) = k /\ sc[t] \notin {"done", "failed"} THEN "cancelled" ELSE sc[t]]

\* What gather does to the other awaitables when one has raised: nothing,
\* they are not cancelled and go on running.
siblings_of_failed(sc, k) == sc

\* Mutant of gathered: gather(..., return_exceptions=True).
gathered_return_exceptions(k) ==
    IF \A t \in ScanTasks : Kind(t) = k => scanpc[t] \in {"done", "failed"}
    THEN "ok"
    ELSE "pending"

\* `await asyncio.gather(*tasks)` over the scans of kind k: it raises as
\* soon as one of them has raised and returns when all have returned.
gathered(k) ==
    IF \E t \in ScanTasks : Kind(t) = k /\ scanpc[t] = "failed" THEN "raised"
    ELSE IF \A t \in ScanTasks : Kind(t) = k => scanpc[t] = "done" THEN "ok"
    ELSE "pending"

\* update_financial_instruments is called with the exchange codes as
\* filters; the ticker scans are handed to gather.
UpdateStart ==
    /\ upd = "idle"
    /\ upd' = "tickers"
    /\ started' = {"tickers"}
    /\ UNCHANGED <<scanpc, requests, notified>>
    /\ UNCHANGED <<session, limVars>>
    /\ ScopeUntouched
    /\ RestOfUpdate

\* `async with self.api_client as api_client:` __aenter__ gives the client
\* a new session.  scan_tickers makes two requests in the scope,
\* scan_end_of_day_data one.
ScanEnter(t) ==
    /\ Kind(t) \in started
    /\ scanpc[t] = "new"
    /\ session' = "open"
    /\ scanpc' = [scanpc EXCEPT ![t] = IF Kind(t) = "tickers" THEN "in2" ELSE "in1"]
    /\ UNCHANGED <<upd, started, requests, notified>>
    /\ UNCHANGED limVars
    /\ ScopeUntouched
    /\ RestOfUpdate

\* What a request through the client gives: a closed session cannot make
\* it, an open one gives what the API gives.
request_through(sess, out) == IF sess = "open" THEN out ELSE "RuntimeError"

\* A request made inside the scope: get_tickers, get_eod_bulk_data.
ScanRequest(t, out) ==
    /\ scanpc[t] \in {"in2", "in1"}
    /\ requests' = requests \cup {[task |-> t, scoped |-> TRUE, session |-> session]}
    /\ scanpc' = [scanpc EXCEPT ![t] =
           IF request_through(session, out) # "ok" THEN "exiting_err"
           ELSE IF scanpc[t] = "in2" THEN "in1"
           ELSE "exiting_ok"]
    /\ UNCHANGED <<upd, started, notified>>
    /\ UNCHANGED <<session, limVars>>
    /\ ScopeUntouched
    /\ RestOfUpdate

\* The scope is left, by return or by exception: __aexit__ closes the
\* client's session and stops its rate limiter.
ScanExit(t) ==
    /\ scanpc[t] \in {"exiting_ok", "exiting_err"}
    /\ session' = "closed"
    /\ IF task # "none"
       THEN stop_limiter
       ELSE UNCHANGED <<active, task, stopped>>
    /\ scanpc' = [scanpc EXCEPT ![t] =
           IF scanpc[t] = "exiting_ok" THEN "process" ELSE "failed"]
    /\ UNCHANGED <<upd, started, requests, notified>>
    /\ UNCHANGED <<rate_limit, queue, getters, now, apc, acquiredAt>>
    /\ ScopeUntouched
    /\ RestOfUpdate

\* After the scope: scan_tickers' process_ticker calls
\* api_client.get_historical_data for a ticker the database lacks (fetch),
\* and every scan writes through a unit of work, which can fail.
\* A new ticker's rows, and every end-of-day entry's rows, are added and
\* committed: `await uow.commit()`.
ScanProcess(t, fetch, out) ==
    /\ scanpc[t] = "process"
    /\ IF Kind(t) = "tickers" /\ fetch
       THEN /\ requests' = requests \cup
                   {[task |-> t, scoped |-> FALSE, session |-> session]}
            /\ scanpc' = [scanpc EXCEPT ![t] =
                   IF request_through(session, out) = "ok" THEN "done" ELSE "failed"]
            /\ db' = IF request_through(session, out) = "ok"
                     THEN committed(db, t, upd) ELSE db
       ELSE /\ UNCHANGED requests
            /\ scanpc' = [scanpc EXCEPT ![t] = IF out = "ok" THEN "done" ELSE "failed"]
            /\ db' = IF Kind(t) = "eod" /\ out = "ok"
                     THEN committed(db, t, upd) ELSE db
    /\ UNCHANGED <<upd, started, notified>>
    /\ UNCHANGED <<session, limVars>>
    /\ ScopeUntouched
    /\ UNCHANGED <<busVars, reqVars, storeVars, brokerVars, schedVars, ctorVars>>
    /\ UNCHANGED <<pending, upc, dbAtEnter, commits, units, lastExit, discarded>>

\* A gather returns or raises: after the ticker scans the end-of-day scans
\* are handed to the next gather, after those the notification is due; an
\* exception is logged and re-raised by update_financial_instruments.
GatherReturns ==
    /\ upd \in {"tickers", "eod"}
    /\ gathered(upd) # "pending"
    /\ IF gathered(upd) = "raised"
       THEN /\ upd' = "raised"
            /\ scanpc' = siblings_of_failed(scanpc, upd)
            /\ UNCHANGED started
       ELSE IF upd = "tickers"
       THEN /\ upd' = "eod"
            /\ started' = started \cup {"eod"}
            /\ UNCHANGED scanpc
       ELSE /\ upd' = "publish"
            /\ UNCHANGED <<started, scanpc>>
    /\ UNCHANGED <<requests, notified>>
    /\ UNCHANGED <<session, limVars>>
    /\ ScopeUntouched
    /\ RestOfUpdate

\* `async with self.event_bus() as event_bus: await event_bus.publish(
\* Notification(...))`, which returns or raises.
PublishNotification(out) ==
    /\ upd = "publish"
    /\ IF out = "ok"
       THEN /\ notified' = notified + 1
            /\ upd' = "done"
       ELSE /\ upd' = "raised"
            /\ UNCHANGED notified
    /\ UNCHANGED <<started, scanpc, requests>>
    /\ UNCHANGED <<session, limVars>>
    /\ ScopeUntouched
    /\ RestOfUpdate

NextUpdate ==
    \/ UpdateStart
    \/ \E t \in ScanTasks : ScanEnter(t)
    \/ \E t \in ScanTasks, out \in {"ok", "RetryError"} : ScanRequest(t, out)
    \/ \E t \in ScanTasks : ScanExit(t)
    \/ \E t \in ScanTasks, fetch \in BOOLEAN, out \in {"ok", "Exception"} :
            ScanProcess(t, fetch, out)
    \/ GatherReturns
    \/ \E out \in {"ok", "AMQPError"} : PublishNotification(out)

(***************************************************************************)
(* JobSchedulingService (services.py): the job the scheduler runs every    *)
(* 24 hours.                                                               *)
(***************************************************************************)
InitScheduler ==
    /\ firings = 0
    /\ coroutines = <<>>

SchedulerAtRest == InitScheduler

\* Calling an `async def` such as event_bus.publish(event) runs none of its
\* body: it makes a coroutine object, which runs only once it is awaited or
\* wrapped in a task.
call_async(event_name) == [event_type |-> event_name, state |-> "created"]

\* The scheduler runs publish_update, a plain function, in its executor:
\* `event = UpdateFinancialInstruments(); self.event_bus.publish(event)`.
\* The coroutine object publish() returns is the value of an expression
\* statement: it is neither awaited nor scheduled, and the function returns.
JobFires ==
    /\ firings < MaxFirings
    /\ firings' = firings + 1
    /\ coroutines' = Append(coroutines, call_async("UpdateFinancialInstruments"))
    /\ UNCHANGED <<busVars, limVars, reqVars, scopeVars, storeVars, brokerVars, uowVars,
                   updVars, ctorVars>>

\* The scheduler's job next to the rest of the service, which uses the same
\* bus object.
NextJobs ==
    \/ JobFires
    \/ BrokerStep(MainTask)

(***************************************************************************)
(* EODHDAPIClient(api_key, **kwargs) (api.py): construction                *)
(***************************************************************************)
ApiKeys == {None, "", "key"}

InitCtor ==
    /\ api_key = None
    /\ client = "none"

CtorAtRest == InitCtor

\* EODHDAPIClient.__init__(api_key, rate_limit=rl), rl = 0 standing for a
\* rate_limit of None or 0: super().__init__(**kwargs) runs first and, given
\* a rate_limit, constructs the RateLimiter, whose __init__ creates the
\* refill task; only then `if not api_key:` raises ValueError.
EODHDAPIClient_init(key, rl) ==
    /\ api_key' = key
    /\ IF rl # 0
       THEN /\ rate_limit' = rl
            /\ queue' = 0
            /\ getters' = <<>>
            /\ task' = "running"
            /\ active' = TRUE
            /\ stopped' = <<>>
            /\ UNCHANGED <<now, apc, acquiredAt>>
       ELSE UNCHANGED limVars
    /\ client' = IF key \in {None, ""} THEN "ValueError" ELSE "constructed"

\* The client is constructed, as the container's Factory provider does.
ConstructClient(key, rl) ==
    /\ client = "none"
    /\ EODHDAPIClient_init(key, rl)
    /\ UNCHANGED <<busVars, reqVars, scopeVars, storeVars, brokerVars, uowVars, updVars,
                   schedVars>>

\* The limiter of a client that was constructed is used and stopped through
\* the client; after a failed construction nothing refers to the limiter,
\* and its task goes on by itself.
NextCtor ==
    \/ \E key \in ApiKeys, rl \in 0..MaxRateLimit : ConstructClient(key, rl)
    \/ Tick
    \/ client = "constructed" /\ \E c \in Callers : Acquire(c)
    \/ client = "constructed" /\ \E c \in Callers : AcquireResume(c)
    \/ client = "constructed" /\ Stop

AppAtRest ==
    BrokerAtRest /\ UowAtRest /\ UpdateAtRest /\ SchedulerAtRest /\ CtorAtRest

(***************************************************************************)
(* Specifications                                                          *)
(***************************************************************************)
Init == InitBus /\ LimiterAtRest /\ RetryAtRest /\ InitScope /\ StoreAtRest /\ AppAtRest
BusAtRest == InitBus
Next == NextBus
Spec == Init /\ [][Next]_vars

InitL == BusAtRest /\ InitLimiter /\ RetryAtRest /\ InitScope /\ StoreAtRest /\ AppAtRest
SpecLimiter == InitL /\ [][NextLimiter]_vars

\* An active limiter that is never stopped: the refill task keeps waking
\* from its sleep, and the event loop runs every task it has woken.  When a
\* caller calls acquire() is up to the caller.
NextActive ==
    \/ Refill
    \/ \E c \in Callers : Acquire(c)
    \/ \E c \in Callers : AcquireResume(c)

FairActive ==
    /\ WF_vars(Refill)
    /\ \A c \in Callers : WF_vars(AcquireResume(c))

SpecActive == InitL /\ [][NextActive]_vars /\ FairActive

InitR == BusAtRest /\ LimiterAtRest /\ InitRetry /\ InitScope /\ StoreAtRest /\ AppAtRest
SpecRetry == InitR /\ [][NextRetry]_vars

\* The request of a client constructed with a backoff_start of its own,
\* against calls that fail with a retried error or succeed.
InitBackoff ==
    /\ BusAtRest
    /\ LimiterAtRest
    /\ max_retries \in 0..MaxRetriesBound
    /\ backoff_start \in 1..MaxBackoffStart
    /\ waits = <<>>
    /\ script \in [1..ScriptLen -> {e \in ScriptEntries :
                        \/ e.kind = "response" /\ e.status \in {200, 500}
                        \/ e.kind = "raise" /\ e.cls = "ClientConnectionError"}]
    /\ rpc = "idle"
    /\ acquired = 0
    /\ attempt_number = 1
    /\ calls = 0
    /\ outcome = NoOutcome
    /\ result = NoResult
    /\ InitScope
    /\ StoreAtRest
    /\ AppAtRest

SpecBackoff == InitBackoff /\ [][NextRetry]_vars

\* A request through a client constructed with or without a rate limit,
\* while the limiter's refill task runs.
ClientScriptEntries ==
    {e \in ScriptEntries :
        \/ e.kind = "response" /\ e.status \in {200, 500}
        \/ e.kind = "raise" /\ e.cls = "ClientConnectionError"}

InitC ==
    /\ BusAtRest
    /\ (InitLimiter \/ LimiterAtRest)
    /\ InitRetry
    /\ script \in [1..ScriptLen -> ClientScriptEntries]
    /\ InitScope
    /\ StoreAtRest
    /\ AppAtRest

NextClient ==
    \/ StartRequest
    \/ RateLimit
    \/ RateLimitResume
    \/ HttpCall
    \/ RetryDecision
    \/ BackoffElapsed
    \/ Tick

SpecClient == InitC /\ [][NextClient]_vars

\* A client, with or without a rate limiter, used as a scope.
InitS ==
    /\ BusAtRest
    /\ (InitLimiter \/ LimiterAtRest)
    /\ RetryAtRest
    /\ InitScope
    /\ StoreAtRest
    /\ AppAtRest

SpecScope == InitS /\ [][NextScope]_vars

\* Sequential calls on one idempotency store.
InitSt ==
    /\ BusAtRest
    /\ LimiterAtRest
    /\ RetryAtRest
    /\ InitScope
    /\ InitStore
    /\ AppAtRest

SpecStore == InitSt /\ [][NextStore]_vars

\* Marks and existence checks on a store whose backend answers, while its
\* clock advances.
NextExpiry ==
    \/ \E e \in EventIds : StoreIsProcessed(e, "ok", "ok")
    \/ \E e \in EventIds : StoreMarkAsProcessed(e, "ok", "ok")
    \/ \E d \in Durations : StoreTimePasses(d)

SpecExpiry == InitSt /\ [][NextExpiry]_vars

\* One task uses the event bus.
InitB ==
    /\ BusAtRest
    /\ LimiterAtRest
    /\ RetryAtRest
    /\ InitScope
    /\ InitStore
    /\ InitBroker
    /\ UowAtRest
    /\ UpdateAtRest
    /\ SchedulerAtRest
    /\ CtorAtRest

SpecBroker == InitB /\ [][NextBroker]_vars

\* Several tasks use the event bus at the same time.
SpecBrokerTasks == InitB /\ [][NextBrokerTasks]_vars

\* Units of work, one after another.
InitU ==
    /\ BusAtRest
    /\ LimiterAtRest
    /\ RetryAtRest
    /\ InitScope
    /\ StoreAtRest
    /\ BrokerAtRest
    /\ InitUow
    /\ UpdateAtRest
    /\ SchedulerAtRest
    /\ CtorAtRest

SpecUow == InitU /\ [][NextUow]_vars

\* No client constructed yet.
InitConstruct ==
    /\ BusAtRest
    /\ LimiterAtRest
    /\ RetryAtRest
    /\ InitScope
    /\ StoreAtRest
    /\ AppAtRest

SpecConstruct == InitConstruct /\ [][NextCtor]_vars

\* The scheduler fires when the job is due, and the event loop runs every
\* bus operation that can go on.
InitJobs ==
    /\ BusAtRest
    /\ LimiterAtRest
    /\ RetryAtRest
    /\ InitScope
    /\ InitStore
    /\ InitBroker
    /\ UowAtRest
    /\ UpdateAtRest
    /\ InitScheduler
    /\ CtorAtRest

FairJobs ==
    /\ WF_vars(JobFires)
    /\ WF_vars(BrokerStep(MainTask))

SpecJobs == InitJobs /\ [][NextJobs]_vars /\ FairJobs

\* A rate-limited client used as a scope more than once, with a request
\* made inside a scope.  The event loop runs every task that can run, and
\* the refill task wakes from its sleep for as long as it is running.
InitReuse ==
    /\ BusAtRest
    /\ InitLimiter
    /\ RetryAtRest
    /\ InitScope
    /\ StoreAtRest
    /\ AppAtRest

NextReuse ==
    \/ ClientEnter
    \/ \E e \in BodyOutcomes : BodyEnds(e)
    \/ ClientExit
    \/ Refill
    \/ ScopedRequest
    \/ RateLimit
    \/ RateLimitResume
    \/ HttpCall
    \/ RetryDecision

FairReuse ==
    /\ WF_vars(Refill)
    /\ WF_vars(RateLimit)
    /\ WF_vars(RateLimitResume)
    /\ WF_vars(HttpCall)
    /\ WF_vars(RetryDecision)

SpecReuse == InitReuse /\ [][NextReuse]_vars /\ FairReuse

\* One update of the financial instruments through a shared client, with
\* or without a rate limiter.
InitUpd ==
    /\ BusAtRest
    /\ (InitLimiter \/ LimiterAtRest)
    /\ RetryAtRest
    /\ InitScope
    /\ StoreAtRest
    /\ BrokerAtRest
    /\ UowAtRest
    /\ InitUpdate
    /\ SchedulerAtRest
    /\ CtorAtRest

SpecUpdate == InitUpd /\ [][NextUpdate]_vars

(***************************************************************************)
(* Properties                                                              *)
(***************************************************************************)
Contains(tr, x) == \E i \in 1..Len(tr) : tr[i] = x

\* every occurrence of b in tr comes after an occurrence of a
Before(tr, a, b) ==
    \A j \in 1..Len(tr) : tr[j] = b => \E i \in 1..(j - 1) : tr[i] = a

Finished(m) == pc[m] = "done"

\* C1: for every event_id the handler runs to successful completion at most
\* once, over any interleaving of deliveries and with store calls that may
\* fail.
C1_HandlerCompletesAtMostOnce ==
    \A e \in EventIds : completed[e] <= 1

C6_StepsInOrder ==
    /\ \A e \in redis : completed[e] >= 1
    /\ \A m \in Messages :
        /\ Before(trace[m], "parse", "is_processed")
        /\ Before(trace[m], "is_processed", "handler")
        /\ Before(trace[m], "handler", "handler_ok")
        /\ Before(trace[m], "handler_ok", "mark")
        /\ (Contains(trace[m], "handler") => Before(trace[m], "mark", "ack"))
        /\ (Contains(trace[m], "handler") /\ msgState[m] = "acked"
                => msgBody[m].event_id \in redis)
        /\ (Finished(m) /\ Contains(trace[m], "mark")
                => trace[m] = <<"parse", "is_processed", "handler", "handler_ok",
                                "mark", "ack">>)

\* C6 witness: a novel message was handled, marked and acknowledged.
C6_Witness ==
    \E m \in Messages :
        /\ Finished(m)
        /\ trace[m] = <<"parse", "is_processed", "handler", "handler_ok", "mark", "ack">>
        /\ msgState[m] = "acked"

\* C7: whenever the handler raised for a message with a valid event_id, the
\* message is rejected with requeue (it is ready for redelivery) and this
\* delivery did not mark the event processed.
C7_HandlerFailureRequeued ==
    \A m \in Messages :
        Contains(trace[m], "handler_raised") =>
            /\ disp[m] = <<"reject_requeue">>
            /\ ~Contains(trace[m], "mark")

\* C8: a message whose body cannot be parsed as JSON is rejected without
\* requeue, the handler is not invoked for it and the idempotency store is
\* neither queried nor written.
Unparseable(b) == ParseBody(b).exc \in {"UnicodeDecodeError", "JSONDecodeError"}

C8_PoisonRejectedWithoutRequeue ==
    \A m \in Messages :
        Finished(m) /\ Unparseable(msgBody[m]) =>
            /\ disp[m] = <<"reject">>
            /\ msgState[m] = "dropped"
            /\ ~Contains(trace[m], "handler")
            /\ ~Contains(trace[m], "is_processed")
            /\ ~Contains(trace[m], "mark")

\* C9: every payload that parses as JSON and carries no event_id is rejected
\* without requeue, the handler is not invoked and no event is marked.
CarriesNoEventId(b) ==
    /\ b.utf8
    /\ b.json \in {"array", "object"}
    /\ (b.json = "object" => b.event_id = None)

C9_MissingIdRejectedWithoutRequeue ==
    \A m \in Messages :
        Finished(m) /\ CarriesNoEventId(msgBody[m]) =>
            /\ disp[m] = <<"reject">>
            /\ msgState[m] = "dropped"
            /\ ~Contains(trace[m], "handler")
            /\ ~Contains(trace[m], "mark")

\* Sum of acquiredAt over the periods a..b
RECURSIVE AcquiredIn(_, _)
AcquiredIn(a, b) == IF a > b THEN 0 ELSE acquiredAt[a] + AcquiredIn(a + 1, b)

\* C2: in every window of length interval (rate_limit consecutive delay
\* periods) at most rate_limit acquire() calls complete.
C2_AtMostRateLimitPerInterval ==
    \A t \in Times :
        t + rate_limit - 1 <= MaxTime
            => AcquiredIn(t, t + rate_limit - 1) <= rate_limit

RequestDone == rpc \in {"returned", "raised"}

\* session.request raises a connection-level aiohttp.ClientError
TransportError(e) == e.kind = "raise" /\ IsClientError(e.cls)

\* the response has an error status
StatusError(e) == e.kind = "response" /\ e.status >= 400

Success(e) == e.kind = "response" /\ e.status < 400

Max(a, b) == IF a >= b THEN a ELSE b

\* C3: with a transport error on the first k < max_retries attempts and
\* success on the next one, request() returns the successful result after
\* exactly k + 1 HTTP calls.
C3_RetryThenSuccess ==
    RequestDone =>
        \A k \in 0..(max_retries - 1) :
            (/\ \A i \in 1..k : TransportError(script[i])
             /\ Success(script[k + 1]))
                => /\ result.kind = "returned"
                   /\ result.last = RequestOutcome(script[k + 1])
                   /\ calls = k + 1

\* C3 witness: a request returned after at least one retried transport error.
C3_Witness ==
    /\ rpc = "returned"
    /\ calls >= 2
    /\ \A i \in 1..(calls - 1) : TransportError(script[i])
    /\ Success(script[calls])

\* C4 as claimed: with a transport error on every attempt request() makes
\* exactly max_retries attempts and raises RetryError holding the last
\* exception.
C4_ExactlyMaxRetriesAttempts ==
    RequestDone /\ (\A i \in 1..ScriptLen : TransportError(script[i]))
        => /\ calls = max_retries
           /\ result.exc = "RetryError"
           /\ result.last = RequestOutcome(script[calls])

\* C4 amended: with a transport error on every attempt request() makes
\* exactly max(1, max_retries) attempts (the first attempt is always made)
\* and raises RetryError holding the exception of the last attempt.
C4_ExhaustionAfterMaxAttempts ==
    RequestDone /\ (\A i \in 1..ScriptLen : TransportError(script[i]))
        => /\ calls = Max(1, max_retries)
           /\ result.kind = "raised"
           /\ result.exc = "RetryError"
           /\ result.last = RequestOutcome(script[Max(1, max_retries)])

\* C4 witness: retries were exhausted after several transport errors, the
\* last one different from the first.
C4_Witness ==
    /\ rpc = "raised"
    /\ result.exc = "RetryError"
    /\ max_retries >= 2
    /\ calls = max_retries
    /\ \A i \in 1..ScriptLen : TransportError(script[i])
    /\ script[1].cls # script[calls].cls

\* C10 as claimed: a response with an error status is not retried: one HTTP
\* call is made and the status error itself propagates to the caller.
C10_StatusErrorNotRetried ==
    RequestDone /\ StatusError(script[1])
        => /\ calls = 1
           /\ result.kind = "raised"
           /\ result.exc = "ClientResponseError"

\* C10 amended: a response with an error status raises ClientResponseError,
\* which is retried like a transport error: while attempts remain another
\* HTTP call follows, and the status error reaches the caller only as the
\* last attempt of a RetryError, never bare.
C10_StatusErrorRetried ==
    RequestDone =>
        /\ result.exc # "ClientResponseError"
        /\ \A i \in 1..calls :
            StatusError(script[i]) =>
                IF i < max_retries
                THEN calls > i
                ELSE /\ calls = i
                     /\ result.kind = "raised"
                     /\ result.exc = "RetryError"
                     /\ result.last.cls = "ClientResponseError"

\* C10 witness: a request whose every attempt got an error status was
\* retried and ended in RetryError.
C10_Witness ==
    /\ rpc = "raised"
    /\ result.exc = "RetryError"
    /\ calls >= 2
    /\ \A i \in 1..calls : StatusError(script[i])

\* C11: when every attempt receives a response with a status s >= 400,
\* request() raises RetryError whose last attempt holds the
\* ClientResponseError of the last response, with that response's status.
C11_StatusPreserved ==
    RequestDone /\ (\A i \in 1..ScriptLen : StatusError(script[i]))
        => /\ result.kind = "raised"
           /\ result.exc = "RetryError"
           /\ result.last.kind = "raise"
           /\ result.last.cls = "ClientResponseError"
           /\ result.last.status = script[calls].status
           /\ result.last.status >= 400
           /\ (\A s \in {400, 500} :
                 (\A i \in 1..ScriptLen : script[i].status = s)
                    => result.last.status = s)

\* C11 witness: every attempt got status 400 and the RetryError carries 400.
C11_Witness ==
    /\ rpc = "raised"
    /\ \A i \in 1..ScriptLen : script[i].kind = "response" /\ script[i].status = 400
    /\ result.exc = "RetryError"
    /\ result.last.status = 400
    /\ calls >= 2

\* Sum of f over the periods 0..t
RECURSIVE SumTo(_, _)
SumTo(f, t) == IF t < 0 THEN 0 ELSE f[t] + SumTo(f, t - 1)

\* C12: the number of tokens in the queue is between 0 and rate_limit, under
\* any interleaving of refill ticks, acquire() calls and stop().
C12_TokensWithinCapacity ==
    /\ queue >= 0
    /\ queue <= rate_limit

\* C12 witness: after acquires and refills the bucket is full again.
C12_Witness ==
    /\ queue = rate_limit
    /\ now = MaxTime
    /\ SumTo(acquiredAt, MaxTime) >= 1

\* C13: an acquire() completes only when a token is available and takes
\* exactly one; tokens leave the queue in no other way; a caller that finds
\* the bucket empty is suspended instead of returning.
C13_AcquireTakesOneToken ==
    [][/\ (SumTo(acquiredAt', MaxTime) # SumTo(acquiredAt, MaxTime)
            => /\ SumTo(acquiredAt', MaxTime) = SumTo(acquiredAt, MaxTime) + 1
               /\ queue > 0
               /\ queue' = queue - 1)
       /\ (queue' < queue
            => SumTo(acquiredAt', MaxTime) = SumTo(acquiredAt, MaxTime) + 1)
       /\ \A c \in Callers :
            (apc[c] \in {"idle", "woken"} /\ apc'[c] # apc[c] /\ queue = 0)
                => /\ apc'[c] = "waiting"
                   /\ acquiredAt' = acquiredAt]_vars

\* C13 witness: one acquire() has completed and another caller is suspended
\* on the empty bucket.
C13_Witness ==
    /\ SumTo(acquiredAt, MaxTime) >= 1
    /\ queue = 0
    /\ \E c \in Callers : apc[c] = "waiting"

\* C14: a refill tick of an active limiter adds exactly one token to a bucket
\* that is not full and leaves a full bucket as it is, and the refill task
\* keeps running either way.
C14_RefillAddsOneOrDrops ==
    [][(now' = now + 1 /\ task = "running")
        => /\ (queue < rate_limit => queue' = queue + 1)
           /\ (queue >= rate_limit => queue' = queue)
           /\ task' = "running"]_vars

\* C14 witness: the task is still running after a refill found the bucket
\* full.
C14_Witness ==
    /\ task = "running"
    /\ queue = rate_limit
    /\ now > rate_limit
    /\ SumTo(acquiredAt, MaxTime) = 0

\* C15: once stop() has returned the limiter is inactive, its refill task is
\* cancelled or finished and no token is added any more; every stop() call
\* returns without raising, and a repeated stop() changes nothing.
C15_StopTerminalAndIdempotent ==
    /\ [](stopped # <<>>
            => /\ ~active
               /\ task \in {"cancelled", "finished"}
               /\ \A i \in 1..Len(stopped) : stopped[i] = "returned")
    /\ [][stopped # <<>>
            => /\ queue' <= queue
               /\ (stopped' # stopped
                    => UNCHANGED <<rate_limit, queue, getters, active, task,
                                   now, apc, acquiredAt>>)]_vars

\* C15 witness: stop() was called twice and time went on to the end.
C15_Witness ==
    /\ Len(stopped) >= 2
    /\ now = MaxTime
    /\ queue < rate_limit

\* C16: with a rate limiter every attempt of request() completes one
\* acquire() before its HTTP call, so the HTTP calls issued never exceed the
\* tokens acquired and a request that succeeds at once holds exactly one
\* token; without a rate limiter the request never waits for a token.
C16_AcquireBeforeEachCall ==
    /\ task # "none"
        => /\ calls <= acquired
           /\ acquired = calls + (IF rpc = "call" THEN 1 ELSE 0)
           /\ (rpc = "returned" /\ calls = 1 => acquired = 1)
           /\ SumTo(acquiredAt, MaxTime) = acquired
    /\ task = "none"
        => /\ acquired = 0
           /\ rpc # "acquire"
           /\ apc[ClientTask] = "idle"

\* C16 witness: a rate-limited request returned after a retry, having
\* acquired one token per HTTP call.
C16_Witness ==
    /\ task # "none"
    /\ rpc = "returned"
    /\ calls >= 2
    /\ acquired = calls

\* C17: the client's session is open from scope entry until exit, and after
\* every exit, whether the body returned or raised, the session is closed
\* and the rate limiter, if there is one, is stopped.
C17_ScopeHoldsAndReleasesSession ==
    /\ spc \in {"inside", "exiting"} => session = "open"
    /\ spc = "exited"
        => /\ session = "closed"
           /\ task # "none"
               => /\ ~active
                  /\ task \in {"cancelled", "finished"}
                  /\ Len(stopped) = Len(propagated)

\* C17 witness: a scope whose body raised has been left, with a rate
\* limiter attached.
C17_Witness ==
    /\ spc = "exited"
    /\ bodyExc # None
    /\ task = "cancelled"
    /\ session = "closed"

Last(seq) == seq[Len(seq)]

FactorySucceeded == {i \in DOMAIN factoryCalls : factoryCalls[i] = "ok"}

\* C18: over sequential initialize(), is_processed() and mark_as_processed()
\* calls the connection is established once and reused: no call invokes the
\* connection factory after it has succeeded, and when it succeeds the first
\* time it is invoked exactly once however many calls follow.
C18_ConnectsOnce ==
    /\ Cardinality(FactorySucceeded) <= 1
    /\ \A i \in FactorySucceeded : i = Len(factoryCalls)
    /\ self_redis # "none" <=> FactorySucceeded # {}
    /\ \A i \in DOMAIN storeCalls : storeCalls[i].had # "none" => Len(factoryCalls) >= 1
    /\ (/\ \E i \in DOMAIN storeCalls : storeCalls[i].op # "close"
        /\ \A i \in DOMAIN factoryCalls : factoryCalls[i] = "ok")
        => Len(factoryCalls) = 1

\* C18 as stated: once any initialize(), is_processed() or
\* mark_as_processed() call has been made, the connection factory has been
\* invoked exactly once.
C18_FactoryInvokedExactlyOnce ==
    (\E i \in DOMAIN storeCalls : storeCalls[i].op # "close")
        => Len(factoryCalls) = 1

\* C18 witness: initialize, a read and a write were made one after another
\* and the factory was invoked once.
C18_Witness ==
    /\ Len(storeCalls) >= 3
    /\ storeCalls[1].op = "initialize"
    /\ storeCalls[2].op = "is_processed"
    /\ storeCalls[3].op = "mark_as_processed"
    /\ storeCalls[3].result = None
    /\ Len(factoryCalls) = 1

\* C19: an error of the backing store during connect, read, write or close
\* reaches the caller as that error, never as a default result; a failed
\* connect leaves the store without a connection and the next call invokes
\* the factory again.
C19_StoreErrorsPropagate ==
    /\ [](\A i \in DOMAIN storeCalls :
            storeCalls[i].backend # None
                => storeCalls[i].result = storeCalls[i].backend)
    /\ [][storeCalls' # storeCalls =>
            /\ (Len(factoryCalls') > Len(factoryCalls) /\ Last(factoryCalls') # "ok")
                => /\ self_redis' = "none"
                   /\ Last(storeCalls').result = Last(factoryCalls')
            /\ (self_redis = "none" /\ Last(storeCalls').op # "close")
                => Len(factoryCalls') = Len(factoryCalls) + 1]_vars

\* C19 witness: a connect failed, the next call connected, and a read failed
\* with the store's error.
C19_Witness ==
    /\ Len(factoryCalls) = 2
    /\ factoryCalls[1] = "RedisError"
    /\ factoryCalls[2] = "ok"
    /\ Len(storeCalls) >= 3
    /\ storeCalls[3].op = "is_processed"
    /\ storeCalls[3].backend = "RedisError"
    /\ storeCalls[3].result = "RedisError"

\* C20: an error of the idempotency store during the dedupe check or the
\* mark step leaves the message callback as that error.
C20_StoreErrorLeavesCallback ==
    \A m \in Messages :
        Finished(m) /\ Contains(trace[m], "RedisError") => raised[m] = "RedisError"

\* The successful mark_as_processed(e) calls made before the i-th call.
MarksBefore(i, e) ==
    {j \in 1..(i - 1) :
        /\ storeCalls[j].op = "mark_as_processed"
        /\ storeCalls[j].event_id = e
        /\ storeCalls[j].backend = None}

\* C21: once mark_as_processed(E) has completed, every is_processed(E)
\* within the 2,592,000 seconds of the marker's expiry answers true;
\* is_processed answers false for an event_id never marked; and marking E
\* changes the answer for no other event_id.
C21_MarkedThenProcessed ==
    /\ [](\A i \in DOMAIN storeCalls :
            storeCalls[i].op = "is_processed" =>
                LET marks == MarksBefore(i, storeCalls[i].event_id) IN
                /\ marks = {} => storeCalls[i].result = "False"
                /\ (\E j \in marks : storeCalls[i].at - storeCalls[j].at < 2592000)
                        => storeCalls[i].result = "True")
    /\ [][storeCalls' # storeCalls /\ Last(storeCalls').op = "mark_as_processed" =>
            \A e \in EventIds \ {Last(storeCalls').event_id} :
                is_processed(redis', e) = is_processed(redis, e)]_vars

\* C21 witness: an event was marked and found processed in the last second
\* of the 30 days, while the other event_id was found not processed.
C21_Witness ==
    /\ Len(storeCalls) >= 3
    /\ storeCalls[1].op = "mark_as_processed"
    /\ storeCalls[1].event_id = "e1"
    /\ storeCalls[2].op = "is_processed"
    /\ storeCalls[2].event_id = "e1"
    /\ storeCalls[2].at - storeCalls[1].at = 2592000 - 1
    /\ storeCalls[2].result = "True"
    /\ storeCalls[3].op = "is_processed"
    /\ storeCalls[3].event_id = "e2"
    /\ storeCalls[3].result = "False"

\* C26: for every delivered message the callback makes exactly one ack() or
\* reject() call, counting the one made when message.process() exits, and so
\* sends the broker exactly one disposition.
C26_ExactlyOneDisposition ==
    \A m \in Messages :
        Finished(m) => attempts[m] = 1 /\ Len(disp[m]) = 1

\* A payload that parses and carries an event_id.
ValidPayload(b) == ParseBody(b).exc = "none" /\ ~MissingEventId(ParseBody(b).event_id)

\* C30: no valid message is lost: a message with a parseable payload and an
\* event_id is never dropped by the consumer, whatever the handler does; it
\* is either acknowledged after its event was handled (or found processed)
\* or back in the queue for redelivery.
C30_ValidMessageNeverDropped ==
    \A m \in Messages :
        ValidPayload(msgBody[m]) =>
            /\ msgState[m] # "dropped"
            /\ Finished(m) => msgState[m] \in {"acked", "ready"}

IsPublished(r) == r.op = "publish" /\ r.result = None

Finishes(op) == busLog' # busLog /\ Last(busLog').op = op

\* C22: each successful publish(event) sends exactly one persistent message
\* with routing key event.event_type; the queue "{event_type}_queue" bound
\* for that type receives it and no queue of another type does; a publish
\* that fails raises after at most one exchange.publish call.
C22_PublishRoutesOnePersistentMessage ==
    /\ [](LET pubs == SelectSeq(busLog, IsPublished) IN
            /\ Len(sent) = Len(pubs)
            /\ \A i \in DOMAIN sent :
                /\ sent[i].routing_key = pubs[i].event_type
                /\ sent[i].delivery_mode = "PERSISTENT")
    /\ [](\A ty \in EventTypes : \A i \in DOMAIN received[QueueName(ty)] :
            received[QueueName(ty)][i].event_type = ty)
    /\ [][Finishes("publish") =>
            LET r == Last(busLog') IN
            /\ publishCalls' - publishCalls <= 1
            /\ r.result = None =>
                /\ publishCalls' = publishCalls + 1
                /\ \A ty \in EventTypes :
                    Len(received'[QueueName(ty)]) =
                        Len(received[QueueName(ty)])
                        + (IF /\ ty = r.event_type
                              /\ \E b \in bindings : b.queue = QueueName(ty) /\ b.key = ty
                           THEN 1 ELSE 0)]_vars

\* C22 witness: with a queue bound for each event type, a published
\* Notification reached Notification_queue and not the other queue.
C22_Witness ==
    /\ \A ty \in EventTypes : \E b \in bindings : b.queue = QueueName(ty) /\ b.durable
    /\ Len(received["Notification_queue"]) = 1
    /\ received["UpdateFinancialInstruments_queue"] = <<>>
    /\ Len(sent) = 1

\* C23: when the bus scope has been entered the idempotency store is
\* initialized and connection, channel and exchange are open; close() leaves
\* channel and connection closed, raises nothing, and on a bus already
\* closed closes neither of them again.
C23_EnterOpensExitCloses ==
    /\ [][Finishes("enter") /\ Last(busLog').result = None =>
            /\ self_redis' # "none"
            /\ connection' = "open"
            /\ channel' = "open"
            /\ ExchangeUsable']_vars
    /\ [][Finishes("close") =>
            /\ Last(busLog').result = None
            /\ channel' # "open"
            /\ connection' # "open"
            /\ (channel # "open" => closeCalls'.channel = closeCalls.channel)
            /\ (connection # "open" => closeCalls'.connection = closeCalls.connection)]_vars

\* C29: lazy connection establishment makes one backing connection even
\* when first-use calls overlap: before anything has been closed, the store
\* has connected at most once and connect_robust has made at most one
\* connection.
C29_OneConnectionUnderOverlap ==
    /\ Cardinality(FactorySucceeded) <= 1
    /\ closeCalls.connection = 0 => connectsMade <= 1

\* C25: what a unit of work added is in the database only if commit() was
\* called in its scope: the database changes in no step but a commit, and a
\* scope left without a commit, normally or by an exception, leaves the
\* database as it was when the scope was entered.
C25_OnlyCommitMakesChangesVisible ==
    /\ [](upc = "outside" /\ commits = 0 => db = dbAtEnter)
    /\ [][db' # db => upc = "inside" /\ commits' = commits + 1]_vars
    /\ [][upc = "inside" /\ upc' = "outside" => db' = db]_vars

\* C25 witness: a scope that added a row was left by an exception without a
\* commit, and the row is not in the database.
C25_Witness ==
    /\ upc = "outside"
    /\ lastExit = "Exception"
    /\ commits = 0
    /\ "ABC" \in discarded
    /\ "ABC" \notin db

\* C24: the Notification is published only after every ticker scan and
\* every end-of-day scan has completed successfully; if a scan fails, the
\* update raises to its caller and publishes no Notification.
C24_NotifiedOnlyAfterAllScans ==
    /\ notified <= 1
    /\ upd \in {"publish", "done"} \/ notified > 0
        => \A t \in ScanTasks : scanpc[t] = "done"
    /\ (\E t \in ScanTasks : scanpc[t] = "failed")
        => /\ notified = 0
           /\ upd \in {"tickers", "eod", "raised"}

\* C24 witness: every scan completed and the Notification was published.
C24_Witness ==
    /\ upd = "done"
    /\ notified = 1
    /\ \A t \in ScanTasks : scanpc[t] = "done"

\* C27: every API request of the update is made inside the scope of the
\* client and while the client's session is open, and no scan task enters
\* or leaves the client's scope, replacing or closing the session, while
\* another scan task is inside it.
C27_RequestsOnlyThroughOpenSession ==
    /\ [](\A r \in requests : r.scoped /\ r.session = "open")
    /\ [][\A t \in ScanTasks :
            (scanpc[t] \in InsideClient) # (scanpc'[t] \in InsideClient)
                => \A u \in ScanTasks \ {t} : scanpc[u] \notin InsideClient]_vars

\* A request that has begun an attempt and not yet reached its HTTP call.
AwaitingToken == rpc \in {"attempt", "acquire"}

\* C28: a rate-limited client can be used as a scope more than once: every
\* request made inside a scope entered after an earlier scope of the same
\* client has exited eventually acquires a token and reaches its HTTP call.
C28_LaterScopeRequestProceeds ==
    [](propagated # <<>> /\ spc = "inside" /\ AwaitingToken => <>(rpc = "call"))

\* In the first scope of the client, while the refill task runs, a request
\* that waits for a token does reach its HTTP call.
FirstScopeRequestProceeds ==
    [](propagated = <<>> /\ spc = "inside" /\ AwaitingToken => <>(rpc = "call"))

\* C31: stop() does not release pending acquirers: an acquire() that is
\* suspended on an empty bucket when stop() is invoked stays suspended in
\* every later step, and an acquire() called on an empty bucket after stop()
\* suspends and stays suspended: neither ever completes.
C31_StopLeavesAcquirersSuspended ==
    [][\A c \in Callers :
          stopped # <<>>
            => /\ apc[c] = "waiting" => apc'[c] = "waiting"
               /\ apc[c] = "idle" /\ queue = 0 /\ apc'[c] # "idle"
                    => apc'[c] = "waiting"]_vars

\* C31 witness: after stop() every caller is suspended in acquire() on the
\* empty bucket, and the clock has gone on to its end.
C31_Witness ==
    /\ stopped # <<>>
    /\ queue = 0
    /\ now = MaxTime
    /\ Len(getters) >= 2
    /\ \A c \in Callers : apc[c] = "waiting"

\* C32: while the limiter is active and its refill task keeps ticking, every
\* acquire() eventually returns, also with several callers on the bucket:
\* a caller suspended in acquire() is eventually given a token.
C32_NoWaiterStarved ==
    \A c \in Callers : [](apc[c] = "waiting" => <>(apc[c] = "idle"))

\* A caller suspended in acquire() is eventually woken by a refill.
WaiterEventuallyWoken ==
    \A c \in Callers : [](apc[c] = "waiting" => <>(apc[c] = "woken"))

\* C33: when one of the concurrently running scan tasks fails, the failure
\* reaches the caller of the gather: the gather can only raise, and raises
\* only for a failed task.  The sibling tasks are not cancelled, neither by
\* the raise nor later: after the caller has seen the failure they go on,
\* and what they commit then is written to the store and stays there.
C33_SiblingsRunOnAfterFailure ==
    /\ [](/\ \A t \in ScanTasks : scanpc[t] # "cancelled"
          /\ \A row \in db : scanpc[row.task] = "done")
    /\ [][/\ (/\ upd \in ScanKinds
              /\ \E t \in ScanTasks : Kind(t) = upd /\ scanpc[t] = "failed")
                    => upd' \in {upd, "raised"}
          /\ upd \in ScanKinds /\ upd' = "raised"
                => /\ \E t \in ScanTasks : Kind(t) = upd /\ scanpc[t] = "failed"
                   /\ scanpc' = scanpc
                   /\ db' = db
          /\ upd = "raised"
                => /\ upd' = "raised"
                   /\ db \subseteq db'
                   /\ \A t \in ScanTasks :
                        (/\ scanpc'[t] = "done" /\ scanpc[t] # "done"
                         /\ (Kind(t) = "eod" \/ requests' # requests))
                            => [task |-> t, upd |-> "raised"] \in db']_vars

\* C33 witness: the caller has seen the failure of one ticker scan, and a
\* sibling scan committed its rows after that.
C33_Witness ==
    /\ upd = "raised"
    /\ \E t \in ScanTasks : scanpc[t] = "failed"
    /\ \E row \in db : row.upd = "raised" /\ scanpc[row.task] = "done"

\* C34: a bus that was closed and is used again is connected anew,
\* connection, channel and exchange: every exchange.publish call goes
\* through an exchange declared on the channel that is open now, never
\* through one that belongs to a closed channel.
C34_PublishThroughCurrentExchange ==
    [][publishCalls' # publishCalls
            => /\ connection = "open"
               /\ ExchangeUsable]_vars

\* An attempt against script entry e raises an exception that is not an
\* aiohttp.ClientError.
RaisesOther(e) ==
    RequestOutcome(e).kind = "raise" /\ ~IsClientError(RequestOutcome(e).cls)

C36_WaitBeforeAttempt ==
    \A k \in 2..(Len(waits) + 1) : waits[k - 1] = backoff_start * Pow2(k - 1)

\* C36, amended: the first attempt is made without a wait; the wait before
\* attempt k >= 2, the one that follows the failure of attempt k-1, is
\* backoff_start * 2^(k-2): backoff_start before the second attempt, and
\* from then on each wait is twice the previous one.
C36_WaitDoublesFromBackoffStart ==
    /\ Len(waits) = IF rpc = "sleep" THEN attempt_number ELSE attempt_number - 1
    /\ \A k \in 2..(Len(waits) + 1) :
        /\ waits[k - 1] = backoff_start * Pow2(k - 2)
        /\ k > 2 => waits[k - 1] = 2 * waits[k - 2]

\* C36 witness: a request of a client whose backoff_start is not 1 has slept
\* before its second and before its third attempt.
C36_Witness ==
    /\ backoff_start > 1
    /\ Len(waits) >= 2
    /\ attempt_number >= 3
    /\ calls >= 3

\* A message of the given event type that the exchange has accepted.
Published(event_name) == \E i \in 1..Len(sent) : sent[i].routing_key = event_name

\* C37: each firing of the job registered by
\* schedule_financial_instruments_update leads to an
\* UpdateFinancialInstruments event published to the bus: the publish() the
\* firing called runs to its end.
C37_FiringPublishesUpdate ==
    \A i \in 1..MaxFirings :
        [](firings >= i
            => <>(/\ Len(coroutines) >= i
                  /\ coroutines[i].state = "done"
                  /\ Published(coroutines[i].event_type)))

\* C38: when constructing an EODHDAPIClient fails because the API key is
\* missing or empty, no refill task of a rate limiter is left running.
C38_FailedConstructionLeavesNoTask ==
    client = "ValueError" => task \notin {"running"}

====
